---- MODULE Spec2Model ----
(***************************************************************************)
(* State-machine model of the ST7735 bitmap receiver: the serial protocol  *)
(* engine (lib/SerialProtocol/SerialProtocol.cpp), the display registry it *)
(* drives (lib/DisplayManager/DisplayManager.h), the loop() of             *)
(* src/main.cpp that polls it, and the pixel snapshot store                *)
(* (src/display_snapshot.cpp).                                             *)
(*                                                                         *)
(* The serial receive buffer is a sequence of units.  A unit is one pixel  *)
(* byte, one newline byte, or the text of one line (its characters are     *)
(* kept together as one unit: the engine reads text with                   *)
(* readStringUntil('\n'), and when it reads text as pixel data the unit    *)
(* counts as one byte).  Numeric arguments are kept as character           *)
(* sequences and converted by toInt as String::toInt converts them.        *)
(*                                                                         *)
(* millis() - lastActivity, the only way the code uses lastActivity, is    *)
(* the variable idle.                                                      *)
(***************************************************************************)
EXTENDS Integers, Sequences, FiniteSets, TLC

VARIABLES
    proto,      \* the fields of the SerialProtocol object
    displays,   \* the registry: display id -> DisplayInstance (config, driver handle)
    rx,         \* bytes waiting in the serial port, oldest first
    idle,       \* millis() - lastActivity
    pc,         \* position of loop(): "process", "checkTimeout" or "delay"
    peer,       \* the client: "active" while it may still send, "stopped" afterwards;
                \* for a client that sends one transfer, its script and position
    halted,     \* TRUE once a call through an absent driver handle has faulted
    out,        \* the lines the last engine call printed on the serial port
    ops,        \* the driver calls the last engine call made
    last,       \* what the last engine call read: handler, line, routing, units consumed
    g_snapshot,         \* address of the stored snapshot block, 0 for nullptr
    g_snapshot_size,    \* its size in bytes
    heap,       \* the live blocks of malloc: address -> size and contents
    src,        \* the caller's pixel buffer handed to captureFromBuffer
    call        \* the snapshot call in progress or last completed

snapVars == <<g_snapshot, g_snapshot_size, heap, src, call>>

vars == <<proto, displays, rx, idle, pc, peer, halted, out, ops, last, snapVars>>

(***************************************************************************)
(* Bounds of the model.                                                    *)
(***************************************************************************)
MaxRx == 3          \* units the serial buffer holds at most
TickMs == 5000      \* milliseconds one delay step of the model stands for
MaxIdle == 20000    \* idle is not counted beyond this
MaxPending == 0     \* unread units a peer that waits for its answers sends behind
AdjustSpan == 300   \* ADJUST_* arguments range over -AdjustSpan..AdjustSpan
MaxBurst == 4       \* units a client sending one transfer delivers between two polls
MaxBlocks == 2      \* blocks the heap can hold at once
MaxPixels == 4      \* pixels in the caller's buffer of captureFromBuffer

(***************************************************************************)
(* Program constants.                                                      *)
(***************************************************************************)
TIMEOUT_MS == 15000
DISPLAY_SELECT_TIMEOUT == 3000
MAX_DIMENSION == 1000
PROGRESS_REPORT_INTERVAL == 10

Min(a, b) == IF a < b THEN a ELSE b

(***************************************************************************)
(* Integer conversions.                                                    *)
(***************************************************************************)
Digits == <<"0", "1", "2", "3", "4", "5", "6", "7", "8", "9">>

IsDigit(c) == \E i \in 1..10 : Digits[i] = c

DigitVal(c) == (CHOOSE i \in 1..10 : Digits[i] = c) - 1

RECURSIVE ParseDigits(_, _, _)
ParseDigits(s, i, acc) ==
    IF i > Len(s) \/ ~IsDigit(s[i]) THEN acc
    ELSE ParseDigits(s, i + 1, acc * 10 + DigitVal(s[i]))

RECURSIVE SkipSpaces(_, _)
SkipSpaces(s, i) ==
    IF i <= Len(s) /\ s[i] = " " THEN SkipSpaces(s, i + 1) ELSE i

\* String::toInt(): atol() of the text: leading blanks, an optional sign, then
\* decimal digits up to the first other character; 0 when there is no digit.
toInt(s) ==
    LET i == SkipSpaces(s, 1)
        neg == i <= Len(s) /\ s[i] = "-"
        j == IF i <= Len(s) /\ s[i] \in {"-", "+"} THEN i + 1 ELSE i
    IN  IF neg THEN 0 - ParseDigits(s, j, 0) ELSE ParseDigits(s, j, 0)

\* Narrowing conversions of the assignments to int8_t, uint8_t and uint16_t.
ToInt8(n) == ((n + 128) % 256) - 128
ToUint8(n) == n % 256
ToUint16(n) == n % 65536

(***************************************************************************)
(* Units of the serial stream.                                             *)
(***************************************************************************)
NLByte == 10

Text(head, name, args) == [t |-> "text", head |-> head, name |-> name, args |-> args, v |-> 67]
Byte(b) == [t |-> IF b = NLByte THEN "nl" ELSE "byte", head |-> "", name |-> "", args |-> <<>>, v |-> b]
NL == Byte(NLByte)

NoLine == [t |-> "none", head |-> "", name |-> "", args |-> <<>>, v |-> 0]
EmptyLine == Text("", "", <<>>)
JunkLine == Text("junk", "", <<>>)

\* Position of the first newline in the buffer, 0 when there is none.
NLpos(buf) ==
    IF \E i \in 1..Len(buf) : buf[i].t = "nl"
    THEN CHOOSE i \in 1..Len(buf) : buf[i].t = "nl" /\ \A j \in 1..(i - 1) : buf[j].t # "nl"
    ELSE 0

\* Stream::readStringUntil('\n') followed by String::trim(): the units before the
\* first newline (all of the buffer when no newline arrives before the read times
\* out), the newline dropped.  One text unit is that line; no unit is the empty
\* line; anything else is text no command matches.
readStringUntil(buf) ==
    LET k == NLpos(buf)
        content == IF k = 0 THEN buf ELSE SubSeq(buf, 1, k - 1)
        rest == IF k = 0 THEN <<>> ELSE SubSeq(buf, k + 1, Len(buf))
        used == IF k = 0 THEN buf ELSE SubSeq(buf, 1, k)
        line == IF content = <<>> THEN EmptyLine
                ELSE IF Len(content) = 1 /\ content[1].t = "text" THEN content[1]
                ELSE JunkLine
    IN  [line |-> line, rest |-> rest, used |-> used]

IsCmd(line) == line.head \in
    {"CMD:RESET", "CMD:LIST", "CMD:INFO", "CMD:TEST", "CMD:TEST_ALL", "CMD:FRAME_ON",
     "CMD:FRAME_OFF", "CMD:FRAME_COLOR:", "CMD:FRAME_THICKNESS:", "CMD:ADJUST_TOP:",
     "CMD:ADJUST_BOTTOM:", "CMD:ADJUST_LEFT:", "CMD:ADJUST_RIGHT:", "CMD:CALIBRATE",
     "CMD:UPDATE_CONFIG:", "CMD:ORIENTATION:", "CMD:HELP", "CMD:?"}

IsFrame(line) == line.head \in
    {"FRAME:ON", "FRAME:OFF", "FRAME:COLOR:", "FRAME:THICKNESS:", "FRAME:?"}

(***************************************************************************)
(* The display registry.  Display 0 is the null pointer.                   *)
(***************************************************************************)
\* The configuration records the registry is built from at start-up.
DisplayConfigs ==
    <<[name |-> "Left", width |-> 32, height |-> 24,
       usableX |-> 1, usableY |-> 2, usableWidth |-> 30, usableHeight |-> 21,
       centerX |-> 16, centerY |-> 12],
      [name |-> "Right", width |-> 24, height |-> 32,
       usableX |-> 0, usableY |-> 1, usableWidth |-> 24, usableHeight |-> 30,
       centerX |-> 12, centerY |-> 16]>>

NumDisplays == Len(DisplayConfigs)
DisplayIds == 1..NumDisplays

\* DisplayManager::getDisplay(name): the display of exactly that name, else null.
getDisplay(d, name) ==
    IF \E i \in DisplayIds : d[i].name = name
    THEN CHOOSE i \in DisplayIds : d[i].name = name
    ELSE 0

\* DisplayInstance::isWithinBounds: the point lies in the published usable rectangle.
isWithinBounds(cfg, x, y) ==
    /\ x >= cfg.usableX
    /\ x < cfg.usableX + cfg.usableWidth
    /\ y >= cfg.usableY
    /\ y < cfg.usableY + cfg.usableHeight

\* DisplayInstance::isWithinFrameBounds: the point lies in the usable rectangle moved
\* by the four adjustments (top and left move outwards for a positive adjustment).
isWithinFrameBounds(cfg, x, y, adjustTop, adjustBottom, adjustLeft, adjustRight) ==
    /\ x >= cfg.usableX - adjustLeft
    /\ x <= cfg.usableX + cfg.usableWidth - 1 + adjustRight
    /\ y >= cfg.usableY - adjustTop
    /\ y <= cfg.usableY + cfg.usableHeight - 1 + adjustBottom

(***************************************************************************)
(* The machine a handler works on: a record of the variables it may read   *)
(* or write.  ub is the outcome the build gives a call through an absent   *)
(* driver handle ("fault" or "continue").                                  *)
(***************************************************************************)
Msg(k, msg, val) == [k |-> k, msg |-> msg, val |-> val]
Emit(m, k, msg, val) == [m EXCEPT !.out = Append(@, Msg(k, msg, val))]

DrawOp(op, d, x, y, c) ==
    [op |-> op, d |-> d, x |-> x, y |-> y, c |-> c, adj |-> <<0, 0, 0, 0>>, th |-> 0]
FrameOp(op, d, adj, c, th) ==
    [op |-> op, d |-> d, x |-> 0, y |-> 0, c |-> c, adj |-> adj, th |-> th]
Call(m, o) == [m EXCEPT !.ops = Append(@, o)]

\* A driver call through getTFT() that the code does not guard: with the handle
\* absent the behaviour is undefined, and the build either faults or carries on.
Driver(m, o) ==
    IF m.d[o.d].tft THEN Call(m, o)
    ELSE IF m.ub = "fault" THEN [m EXCEPT !.halted = TRUE]
    ELSE m

\* Drawing methods of DisplayInstance: skipped on a display that is not initialized.
Instance(m, o) == IF m.d[o.d].tft THEN Call(m, o) ELSE m

Adjusts(p) == <<p.usableAreaAdjustTop, p.usableAreaAdjustBottom,
                p.usableAreaAdjustLeft, p.usableAreaAdjustRight>>

drawCalibrationFrame(m, adj, color, thickness) ==
    Instance(m, FrameOp("drawCalibrationFrame", m.p.activeDisplay, adj, color, thickness))

drawImageFrame(m, color, thickness, adj) ==
    Instance(m, FrameOp("drawImageFrame", m.p.activeDisplay, adj, color, thickness))

clearImageFrame(m) ==
    Instance(m, FrameOp("clearImageFrame", m.p.activeDisplay, <<0, 0, 0, 0>>, 0, 0))

enableImageFrame(m, enable, color, thickness, adj) ==
    IF enable THEN drawImageFrame(m, color, thickness, adj) ELSE clearImageFrame(m)

showTestPattern(m, d) == Instance(m, DrawOp("showTestPattern", d, 0, 0, 0))

RECURSIVE showAllTestPatterns(_, _)
showAllTestPatterns(m, i) ==
    IF i > NumDisplays THEN m ELSE showAllTestPatterns(showTestPattern(m, i), i + 1)

(***************************************************************************)
(* SerialProtocol: construction, reset(), sendError().                     *)
(***************************************************************************)
ST77XX_WHITE == 65535

InitProto ==
    [currentState |-> "SelectDisplay", activeDisplay |-> 0,
     bitmapWidth |-> 0, bitmapHeight |-> 0, currentRow |-> 0, currentCol |-> 0,
     offsetX |-> 0, offsetY |-> 0,
     imageFrameEnabled |-> TRUE, imageFrameColor |-> ST77XX_WHITE,
     imageFrameThickness |-> 1,
     usableAreaAdjustTop |-> 0, usableAreaAdjustBottom |-> 0,
     usableAreaAdjustLeft |-> 0, usableAreaAdjustRight |-> 0]

\* A reset that goes back to the selection state with the display still selected.
resetKeepingDisplay(m) ==
    [m EXCEPT !.p.currentState = "SelectDisplay",
              !.p.bitmapWidth = 0, !.p.bitmapHeight = 0,
              !.p.currentRow = 0, !.p.currentCol = 0,
              !.p.offsetX = 0, !.p.offsetY = 0]

\* A reset that forgets to clear the announced bitmap size.
resetKeepingSize(m) ==
    [m EXCEPT !.p.currentState = "SelectDisplay", !.p.activeDisplay = 0,
              !.p.currentRow = 0, !.p.currentCol = 0,
              !.p.offsetX = 0, !.p.offsetY = 0]

reset(m) ==
    [m EXCEPT !.p.currentState = "SelectDisplay", !.p.activeDisplay = 0,
              !.p.bitmapWidth = 0, !.p.bitmapHeight = 0,
              !.p.currentRow = 0, !.p.currentCol = 0,
              !.p.offsetX = 0, !.p.offsetY = 0]

\* The red screen of sendError() with its two lines of text.
ErrorScreen(d, message) ==
    [op |-> "errorScreen", d |-> d, x |-> 5, y |-> 25, c |-> ST77XX_WHITE,
     adj |-> <<0, 0, 0, 0>>, th |-> 0, text |-> message]

\* Variant of sendError that resets before it looks for the display to paint on.
sendErrorResetsFirst(m, message) ==
    LET m1 == reset(Emit(m, "ERROR", message, 0))
    IN  IF m1.p.activeDisplay # 0 /\ m1.d[m1.p.activeDisplay].tft
        THEN Call(m1, ErrorScreen(m1.p.activeDisplay, message))
        ELSE m1

sendError(m, message) ==
    LET m1 == Emit(m, "ERROR", message, 0)
        m2 == IF m1.p.activeDisplay # 0 /\ m1.d[m1.p.activeDisplay].tft
              THEN Call(m1, ErrorScreen(m1.p.activeDisplay, message))
              ELSE m1
    IN  reset(m2)

(***************************************************************************)
(* SerialProtocol::handleMenuCommand, one operator per command.  args are  *)
(* the comma-separated fields that follow the command's colon.             *)
(***************************************************************************)
NoDisplay(m) == Emit(m, "ERROR", "ERROR:No active display selected", 0)

Cfg(m) == m.d[m.p.activeDisplay]

MenuReset(m) == Emit(reset(m), "OK", "OK:Protocol reset", 0)

MenuList(m) ==
    Emit(Emit(Emit(m, "OK", "OK:DISPLAY_LIST", 0), "INFO", "Count:", NumDisplays),
         "INFO", "END_LIST", 0)

MenuInfo(m) ==
    IF m.p.activeDisplay = 0 THEN NoDisplay(m)
    ELSE Emit(Emit(m, "OK", "OK:DISPLAY_INFO", 0), "INFO", "END_INFO", 0)

MenuTest(m) ==
    IF m.p.activeDisplay = 0 THEN NoDisplay(m)
    ELSE Emit(showTestPattern(Emit(m, "OK", "OK:Testing display", m.p.activeDisplay),
                              m.p.activeDisplay),
              "INFO", "Test pattern displayed", 0)

MenuTestAll(m) ==
    Emit(showAllTestPatterns(Emit(m, "OK", "OK:Testing all displays", 0), 1),
         "INFO", "All test patterns displayed", 0)

MenuFrameOn(m) ==
    IF m.p.activeDisplay = 0 THEN NoDisplay(m)
    ELSE LET m1 == enableImageFrame(m, TRUE, m.p.imageFrameColor,
                                    m.p.imageFrameThickness, Adjusts(m.p))
         IN  Emit([m1 EXCEPT !.p.imageFrameEnabled = TRUE], "OK", "OK:Frame enabled", 0)

MenuFrameOff(m) ==
    IF m.p.activeDisplay = 0 THEN NoDisplay(m)
    ELSE LET m1 == enableImageFrame(m, FALSE, ST77XX_WHITE, 1, <<0, 0, 0, 0>>)
         IN  Emit([m1 EXCEPT !.p.imageFrameEnabled = FALSE], "OK", "OK:Frame disabled", 0)

MenuFrameColor(m, args) ==
    IF m.p.activeDisplay = 0 THEN NoDisplay(m)
    ELSE LET color == ToUint16(toInt(args[1]))
             m1 == [m EXCEPT !.p.imageFrameColor = color, !.p.imageFrameEnabled = TRUE]
             m2 == Emit(m1, "OK", "OK:Frame color set to", color)
         IN  drawCalibrationFrame(m2, Adjusts(m2.p), color, m2.p.imageFrameThickness)

\* A FRAME_THICKNESS that stores the thickness before it has checked it.
MenuFrameThicknessUnchecked(m, args) ==
    IF m.p.activeDisplay = 0 THEN NoDisplay(m)
    ELSE LET thickness == toInt(args[1])
             m1 == [m EXCEPT !.p.imageFrameThickness = ToUint8(thickness),
                             !.p.imageFrameEnabled = TRUE]
         IN  IF thickness < 1 \/ thickness > 10
             THEN Emit(m1, "ERROR", "ERROR:Thickness must be between 1 and 10", 0)
             ELSE drawCalibrationFrame(Emit(m1, "OK", "OK:Frame thickness set to", thickness),
                                       Adjusts(m1.p), m1.p.imageFrameColor,
                                       ToUint8(thickness))

MenuFrameThickness(m, args) ==
    IF m.p.activeDisplay = 0 THEN NoDisplay(m)
    ELSE LET thickness == toInt(args[1])
         IN  IF thickness < 1 \/ thickness > 10
             THEN Emit(m, "ERROR", "ERROR:Thickness must be between 1 and 10", 0)
             ELSE LET m1 == [m EXCEPT !.p.imageFrameThickness = ToUint8(thickness),
                                      !.p.imageFrameEnabled = TRUE]
                      m2 == Emit(m1, "OK", "OK:Frame thickness set to", thickness)
                  IN  drawCalibrationFrame(m2, Adjusts(m2.p), m2.p.imageFrameColor,
                                           ToUint8(thickness))

\* What every accepted ADJUST_* command does after storing its adjustment.
Accepted(m, text, adjust, atLimit, notice) ==
    LET m1 == Emit(m, "OK", text, adjust)
        m2 == IF atLimit THEN Emit(m1, "NOTICE", notice, 0) ELSE m1
    IN  drawCalibrationFrame(m2, Adjusts(m2.p), m2.p.imageFrameColor,
                             m2.p.imageFrameThickness)

MenuAdjustTop(m, args) ==
    IF m.p.activeDisplay = 0 THEN NoDisplay(m)
    ELSE LET adjust == ToInt8(toInt(args[1]))
             cfg == Cfg(m)
             newTop == cfg.usableY - adjust
             innerBound == cfg.centerY - 10
             outerBound == -10
         IN  IF newTop < outerBound
             THEN Emit(m, "ERROR", "ERROR:Top edge would be beyond limit (maximum adjustment: ",
                       cfg.usableY - outerBound)
             ELSE IF newTop > innerBound
             THEN Emit(m, "ERROR", "ERROR:Top edge would be past center-10 (minimum adjustment: ",
                       cfg.usableY - innerBound)
             ELSE Accepted([m EXCEPT !.p.usableAreaAdjustTop = adjust],
                           "OK:Top edge adjusted to", adjust, newTop <= -10,
                           "NOTICE:Top edge at maximum outward position")

\* An ADJUST_BOTTOM whose outer check refuses the outermost position itself.
MenuAdjustBottomStrict(m, args) ==
    IF m.p.activeDisplay = 0 THEN NoDisplay(m)
    ELSE LET adjust == ToInt8(toInt(args[1]))
             cfg == Cfg(m)
             configBottom == cfg.usableY + cfg.usableHeight - 1
             newBottom == configBottom + adjust
             innerBound == cfg.centerY + 10
             outerBound == cfg.height + 10 - 1
         IN  IF newBottom >= outerBound
             THEN Emit(m, "ERROR", "ERROR:Bottom edge would be beyond limit (maximum: ",
                       outerBound - configBottom)
             ELSE IF newBottom < innerBound
             THEN Emit(m, "ERROR", "ERROR:Bottom edge would be past center+10 (minimum: ",
                       innerBound - configBottom)
             ELSE Accepted([m EXCEPT !.p.usableAreaAdjustBottom = adjust],
                           "OK:Bottom edge adjusted to", adjust,
                           newBottom >= cfg.height + 10 - 1,
                           "NOTICE:Bottom edge at maximum outward position")

MenuAdjustBottom(m, args) ==
    IF m.p.activeDisplay = 0 THEN NoDisplay(m)
    ELSE LET adjust == ToInt8(toInt(args[1]))
             cfg == Cfg(m)
             configBottom == cfg.usableY + cfg.usableHeight - 1
             newBottom == configBottom + adjust
             innerBound == cfg.centerY + 10
             outerBound == cfg.height + 10 - 1
         IN  IF newBottom > outerBound
             THEN Emit(m, "ERROR", "ERROR:Bottom edge would be beyond limit (maximum: ",
                       outerBound - configBottom)
             ELSE IF newBottom < innerBound
             THEN Emit(m, "ERROR", "ERROR:Bottom edge would be past center+10 (minimum: ",
                       innerBound - configBottom)
             ELSE Accepted([m EXCEPT !.p.usableAreaAdjustBottom = adjust],
                           "OK:Bottom edge adjusted to", adjust,
                           newBottom >= cfg.height + 10 - 1,
                           "NOTICE:Bottom edge at maximum outward position")

MenuAdjustLeft(m, args) ==
    IF m.p.activeDisplay = 0 THEN NoDisplay(m)
    ELSE LET adjust == ToInt8(toInt(args[1]))
             cfg == Cfg(m)
             newLeft == cfg.usableX - adjust
             innerBound == cfg.centerX - 10
             outerBound == -10
         IN  IF newLeft < outerBound
             THEN Emit(m, "ERROR", "ERROR:Left edge would be beyond limit (maximum adjustment: ",
                       cfg.usableX - outerBound)
             ELSE IF newLeft > innerBound
             THEN Emit(m, "ERROR", "ERROR:Left edge would be past center-10 (minimum adjustment: ",
                       cfg.usableX - innerBound)
             ELSE Accepted([m EXCEPT !.p.usableAreaAdjustLeft = adjust],
                           "OK:Left edge adjusted to", adjust, newLeft <= -10,
                           "NOTICE:Left edge at maximum outward position")

\* An ADJUST_RIGHT whose error names the first adjustment beyond the limit.
MenuAdjustRightNamesNext(m, args) ==
    IF m.p.activeDisplay = 0 THEN NoDisplay(m)
    ELSE LET adjust == ToInt8(toInt(args[1]))
             cfg == Cfg(m)
             configRight == cfg.usableX + cfg.usableWidth - 1
             newRight == configRight + adjust
             innerBound == cfg.centerX + 10
             outerBound == cfg.width + 10 - 1
         IN  IF newRight > outerBound
             THEN Emit(m, "ERROR", "ERROR:Right edge would be beyond limit (maximum: ",
                       cfg.width + 10 - configRight)
             ELSE IF newRight < innerBound
             THEN Emit(m, "ERROR", "ERROR:Right edge would be past center+10 (minimum: ",
                       innerBound - configRight)
             ELSE Accepted([m EXCEPT !.p.usableAreaAdjustRight = adjust],
                           "OK:Right edge adjusted to", adjust,
                           newRight >= cfg.width + 10 - 1,
                           "NOTICE:Right edge at maximum outward position")

MenuAdjustRight(m, args) ==
    IF m.p.activeDisplay = 0 THEN NoDisplay(m)
    ELSE LET adjust == ToInt8(toInt(args[1]))
             cfg == Cfg(m)
             configRight == cfg.usableX + cfg.usableWidth - 1
             newRight == configRight + adjust
             innerBound == cfg.centerX + 10
             outerBound == cfg.width + 10 - 1
         IN  IF newRight > outerBound
             THEN Emit(m, "ERROR", "ERROR:Right edge would be beyond limit (maximum: ",
                       outerBound - configRight)
             ELSE IF newRight < innerBound
             THEN Emit(m, "ERROR", "ERROR:Right edge would be past center+10 (minimum: ",
                       innerBound - configRight)
             ELSE Accepted([m EXCEPT !.p.usableAreaAdjustRight = adjust],
                           "OK:Right edge adjusted to", adjust,
                           newRight >= cfg.width + 10 - 1,
                           "NOTICE:Right edge at maximum outward position")

MenuCalibrate(m) ==
    IF m.p.activeDisplay = 0 THEN NoDisplay(m)
    ELSE LET m1 == Emit(m, "OK", "OK:Showing calibration pattern on", m.p.activeDisplay)
             m2 == drawCalibrationFrame(m1, Adjusts(m1.p), m1.p.imageFrameColor,
                                        m1.p.imageFrameThickness)
         IN  Emit(m2, "INFO", "Calibration pattern displayed", 0)

\* The parse loop gives up at the seventh field; fewer than six fields fail after it.
MenuUpdateConfig(m, args) ==
    IF m.p.activeDisplay = 0 THEN NoDisplay(m)
    ELSE IF Len(args) > 6 THEN Emit(m, "ERROR", "ERROR:Too many parameters", 0)
    ELSE IF Len(args) # 6 THEN Emit(m, "ERROR", "ERROR:Expected 6 parameters", 0)
    ELSE LET values == [i \in 1..6 |-> toInt(args[i])]
             a == m.p.activeDisplay
             m1 == [m EXCEPT !.d[a].usableX = ToUint16(values[1]),
                             !.d[a].usableWidth = ToUint16(values[2] - values[1] + 1),
                             !.d[a].usableY = ToUint16(values[3]),
                             !.d[a].usableHeight = ToUint16(values[4] - values[3] + 1),
                             !.d[a].centerX = ToUint16(values[5]),
                             !.d[a].centerY = ToUint16(values[6]),
                             !.p.usableAreaAdjustTop = 0,
                             !.p.usableAreaAdjustBottom = 0,
                             !.p.usableAreaAdjustLeft = 0,
                             !.p.usableAreaAdjustRight = 0]
         IN  Emit(Emit(m1, "OK", "OK:Base configuration updated", 0),
                  "NOTE", "NOTE:Changes lost on power cycle", 0)

MenuOrientation(m, args) ==
    IF m.p.activeDisplay = 0 THEN NoDisplay(m)
    ELSE LET rotation == toInt(args[1])
         IN  IF rotation < 0 \/ rotation > 3
             THEN Emit(m, "ERROR", "ERROR:Invalid orientation. Use 0-3", 0)
             ELSE IF ~Cfg(m).tft
             THEN Emit(m, "ERROR", "ERROR:Display not initialized", 0)
             ELSE Emit(Call(m, DrawOp("setRotation", m.p.activeDisplay, 0, 0, rotation)),
                       "OK", "OK:Orientation set to", rotation)

MenuHelp(m) == Emit(Emit(m, "OK", "OK:HELP", 0), "INFO", "END_HELP", 0)

\* An unknown command reported through sendError, which resets the engine.
MenuUnknownResets(m) == sendError(m, "ERROR:Unknown command: ")

MenuUnknown(m) == Emit(m, "ERROR", "ERROR:Unknown command: ", 0)

handleMenuCommand(m, line) ==
    LET h == line.head
        a == line.args
    IN  CASE h = "CMD:RESET" -> MenuReset(m)
          [] h = "CMD:LIST" -> MenuList(m)
          [] h = "CMD:INFO" -> MenuInfo(m)
          [] h = "CMD:TEST" -> MenuTest(m)
          [] h = "CMD:TEST_ALL" -> MenuTestAll(m)
          [] h = "CMD:FRAME_ON" -> MenuFrameOn(m)
          [] h = "CMD:FRAME_OFF" -> MenuFrameOff(m)
          [] h = "CMD:FRAME_COLOR:" -> MenuFrameColor(m, a)
          [] h = "CMD:FRAME_THICKNESS:" -> MenuFrameThickness(m, a)
          [] h = "CMD:ADJUST_TOP:" -> MenuAdjustTop(m, a)
          [] h = "CMD:ADJUST_BOTTOM:" -> MenuAdjustBottom(m, a)
          [] h = "CMD:ADJUST_LEFT:" -> MenuAdjustLeft(m, a)
          [] h = "CMD:ADJUST_RIGHT:" -> MenuAdjustRight(m, a)
          [] h = "CMD:CALIBRATE" -> MenuCalibrate(m)
          [] h = "CMD:UPDATE_CONFIG:" -> MenuUpdateConfig(m, a)
          [] h = "CMD:ORIENTATION:" -> MenuOrientation(m, a)
          [] h = "CMD:HELP" -> MenuHelp(m)
          [] OTHER -> MenuUnknown(m)

(***************************************************************************)
(* The state handlers of SerialProtocol::process().                        *)
(***************************************************************************)
\* The bookkeeping of one readStringUntil: the units leave the buffer.
Read(m, r, route) ==
    [m EXCEPT !.rx = r.rest,
              !.last.line = r.line,
              !.last.route = route,
              !.last.used = @ \o r.used]

\* The FRAME: commands of handleDisplaySelect; an unknown one is dropped silently.
FrameCommand(m, line) ==
    CASE line.head = "FRAME:ON" ->
            Emit([m EXCEPT !.p.imageFrameEnabled = TRUE], "INFO", "Frame enabled", 0)
      [] line.head = "FRAME:OFF" ->
            Emit([m EXCEPT !.p.imageFrameEnabled = FALSE], "INFO", "Frame disabled", 0)
      [] line.head = "FRAME:COLOR:" ->
            LET c == ToUint16(toInt(line.args[1]))
            IN  Emit([m EXCEPT !.p.imageFrameColor = c], "INFO", "Frame color set to: ", c)
      [] line.head = "FRAME:THICKNESS:" ->
            LET t == ToUint8(toInt(line.args[1]))
            IN  Emit([m EXCEPT !.p.imageFrameThickness = t], "INFO",
                     "Frame thickness set to: ", t)
      [] OTHER -> m

\* The DISPLAY: command of handleDisplaySelect.
SelectCommand(m, line) ==
    LET a == getDisplay(m.d, line.name)
        m1 == [m EXCEPT !.p.activeDisplay = a]
    IN  IF a # 0
        THEN [Emit(m1, "INFO", "DISPLAY_READY:", a)
                 EXCEPT !.p.currentState = "AwaitStart", !.idle = 0]
        ELSE sendError(m1, "ERROR: Display not found: ")

\* Variant of handleDisplaySelect that returns after the first line, whatever it is.
handleDisplaySelectOnePass(m) ==
    IF m.rx = <<>>
    THEN [Emit(m, "INFO", "Ready for next bitmap", 0) EXCEPT !.idle = DISPLAY_SELECT_TIMEOUT]
    ELSE LET r == readStringUntil(m.rx)
         IN  IF IsCmd(r.line) THEN handleMenuCommand(Read(m, r, "menu"), r.line)
             ELSE IF r.line.head = "RESET"
             THEN Emit(reset(Read(m, r, "state")), "INFO", "Protocol reset", 0)
             ELSE IF IsFrame(r.line) THEN FrameCommand(Read(m, r, "state"), r.line)
             ELSE IF r.line.head = "DISPLAY:" THEN SelectCommand(Read(m, r, "state"), r.line)
             ELSE [Read(m, r, "dropped") EXCEPT !.last.skipped = @ + 1]

\* The wait loop: it reads lines while any input is available and returns at the
\* first CMD:, RESET, FRAME: or DISPLAY: line; any other line is dropped and the
\* loop goes on.  It leaves by its end once no input remains and the selection
\* window has elapsed.  Input that arrives during the window is input of the buffer.
RECURSIVE handleDisplaySelect(_)
handleDisplaySelect(m) ==
    IF m.rx = <<>>
    THEN [Emit(m, "INFO", "Ready for next bitmap", 0) EXCEPT !.idle = DISPLAY_SELECT_TIMEOUT]
    ELSE LET r == readStringUntil(m.rx)
         IN  IF IsCmd(r.line) THEN handleMenuCommand(Read(m, r, "menu"), r.line)
             ELSE IF r.line.head = "RESET"
             THEN Emit(reset(Read(m, r, "state")), "INFO", "Protocol reset", 0)
             ELSE IF IsFrame(r.line) THEN FrameCommand(Read(m, r, "state"), r.line)
             ELSE IF r.line.head = "DISPLAY:" THEN SelectCommand(Read(m, r, "state"), r.line)
             ELSE handleDisplaySelect([Read(m, r, "dropped") EXCEPT !.last.skipped = @ + 1])

\* Variant of handleStart that drops a line it does not expect.
handleStartIgnores(m) ==
    IF m.p.activeDisplay = 0
    THEN [sendError(m, "ERROR: No active display selected")
             EXCEPT !.p.currentState = "SelectDisplay"]
    ELSE LET r == readStringUntil(m.rx)
         IN  IF IsCmd(r.line) THEN handleMenuCommand(Read(m, r, "menu"), r.line)
             ELSE IF r.line.head = "BMPStart"
             THEN [Emit(Read(m, r, "state"), "INFO", "Start marker received", 0)
                      EXCEPT !.p.currentState = "AwaitSize"]
             ELSE Read(m, r, "dropped")

handleStart(m) ==
    IF m.p.activeDisplay = 0
    THEN [sendError(m, "ERROR: No active display selected")
             EXCEPT !.p.currentState = "SelectDisplay"]
    ELSE LET r == readStringUntil(m.rx)
         IN  IF IsCmd(r.line) THEN handleMenuCommand(Read(m, r, "menu"), r.line)
             ELSE IF r.line.head = "BMPStart"
             THEN [Emit(Read(m, r, "state"), "INFO", "Start marker received", 0)
                      EXCEPT !.p.currentState = "AwaitSize"]
             ELSE IF r.line # EmptyLine
             THEN sendError(Read(m, r, "state"), "ERROR: Expected BMPStart, got: ")
             ELSE Read(m, r, "dropped")

\* A validation that refuses a bitmap exactly as large as the usable area.
validateDimensionsStrict(m, width, height) ==
    IF m.p.activeDisplay = 0
    THEN [ok |-> FALSE, m |-> sendError(m, "ERROR: No active display selected")]
    ELSE IF width <= 0 \/ height <= 0
    THEN [ok |-> FALSE, m |-> sendError(m, "ERROR: Invalid dimensions")]
    ELSE IF width > MAX_DIMENSION \/ height > MAX_DIMENSION
    THEN [ok |-> FALSE, m |-> sendError(m, "ERROR: Dimensions too large")]
    ELSE IF width >= Cfg(m).usableWidth
    THEN [ok |-> FALSE, m |-> sendError(m, "ERROR: Width exceeds usable width")]
    ELSE IF height >= Cfg(m).usableHeight
    THEN [ok |-> FALSE, m |-> sendError(m, "ERROR: Height exceeds usable height")]
    ELSE [ok |-> TRUE, m |-> Emit(m, "INFO", "Dimensions validated: ", width)]

validateDimensions(m, width, height) ==
    IF m.p.activeDisplay = 0
    THEN [ok |-> FALSE, m |-> sendError(m, "ERROR: No active display selected")]
    ELSE IF width <= 0 \/ height <= 0
    THEN [ok |-> FALSE, m |-> sendError(m, "ERROR: Invalid dimensions")]
    ELSE IF width > MAX_DIMENSION \/ height > MAX_DIMENSION
    THEN [ok |-> FALSE, m |-> sendError(m, "ERROR: Dimensions too large")]
    ELSE IF width > Cfg(m).usableWidth
    THEN [ok |-> FALSE, m |-> sendError(m, "ERROR: Width exceeds usable width")]
    ELSE IF height > Cfg(m).usableHeight
    THEN [ok |-> FALSE, m |-> sendError(m, "ERROR: Height exceeds usable height")]
    ELSE [ok |-> TRUE, m |-> Emit(m, "INFO", "Dimensions validated: ", width)]

\* A centering that halves the difference of the extents instead of each extent.
CenterOffsetOfDifference(usableOrigin, usableExtent, bmpExtent) ==
    usableOrigin + (usableExtent - bmpExtent) \div 2

\* The centering offset along one axis (the operands are never negative here,
\* so the truncating division of the code is \div).
CenterOffset(usableOrigin, usableExtent, bmpExtent) ==
    (usableOrigin + usableExtent \div 2) - bmpExtent \div 2

\* The offsets are written to the members before the bounds are verified.
calculateOffsets(m, bmpWidth, bmpHeight) ==
    IF m.p.activeDisplay = 0 THEN [ok |-> FALSE, m |-> m]
    ELSE LET cfg == Cfg(m)
             oX == CenterOffset(cfg.usableX, cfg.usableWidth, bmpWidth)
             oY == CenterOffset(cfg.usableY, cfg.usableHeight, bmpHeight)
             m1 == [m EXCEPT !.p.offsetX = oX, !.p.offsetY = oY]
         IN  IF \/ ~isWithinBounds(cfg, oX, oY)
                \/ ~isWithinBounds(cfg, oX + bmpWidth - 1, oY + bmpHeight - 1)
             THEN [ok |-> FALSE,
                   m |-> sendError(m1, "ERROR: Calculated bitmap position exceeds bounds")]
             ELSE [ok |-> TRUE, m |-> Emit(m1, "INFO", "Centering at offset: ", oX)]

\* Variant of startReception that answers READY before it clears the display.
startReceptionReadyFirst(m) ==
    LET m0 == Emit(m, "INFO", "READY", 0)
        m1 == IF m0.p.activeDisplay # 0
              THEN Driver(Emit(m0, "INFO", "Clearing display...", 0),
                          DrawOp("fillScreen", m0.p.activeDisplay, 0, 0, 0))
              ELSE m0
    IN  IF m1.halted THEN m1
        ELSE [Emit(m1, "INFO", "Receiving bitmap: ", 0)
                 EXCEPT !.p.currentRow = 0, !.p.currentCol = 0,
                        !.p.currentState = "ReceivingData"]

\* What handleSize does once both checks have passed.
startReception(m) ==
    LET m1 == IF m.p.activeDisplay # 0
              THEN Driver(Emit(m, "INFO", "Clearing display...", 0),
                          DrawOp("fillScreen", m.p.activeDisplay, 0, 0, 0))
              ELSE m
    IN  IF m1.halted THEN m1
        ELSE [Emit(Emit(m1, "INFO", "READY", 0), "INFO", "Receiving bitmap: ", 0)
                 EXCEPT !.p.currentRow = 0, !.p.currentCol = 0,
                        !.p.currentState = "ReceivingData"]

\* A line that does not start with SIZE: is dropped without an answer.  indexOf(',')
\* is positive exactly when the text after SIZE: has a comma: two fields at least.
handleSize(m) ==
    LET r == readStringUntil(m.rx)
        m0 == Read(m, r, "state")
    IN  IF r.line.head # "SIZE:" THEN Read(m, r, "dropped")
        ELSE IF Len(r.line.args) < 2 THEN sendError(m0, "ERROR: Invalid size format")
        ELSE LET w == toInt(r.line.args[1])
                 h == toInt(r.line.args[2])
                 m1 == [m0 EXCEPT !.p.bitmapWidth = w, !.p.bitmapHeight = h]
                 v == validateDimensions(m1, w, h)
             IN  IF ~v.ok THEN v.m
                 ELSE LET c == calculateOffsets(v.m, w, h)
                      IN  IF ~c.ok THEN c.m ELSE startReception(c.m)

\* Variant of receivePixel that takes the low byte first.
receivePixelLowFirst(m) ==
    LET lowByte == m.rx[1].v
        highByte == m.rx[2].v
        pixelColor == ToUint16(highByte * 256 + lowByte)
        p == m.p
        displayX == p.currentCol + p.offsetX
        displayY == p.currentRow + p.offsetY
        m1 == [m EXCEPT !.rx = SubSeq(@, 3, Len(@)),
                        !.last.used = @ \o SubSeq(m.rx, 1, 2)]
        m2 == IF isWithinFrameBounds(Cfg(m), displayX, displayY,
                                     p.usableAreaAdjustTop, p.usableAreaAdjustBottom,
                                     p.usableAreaAdjustLeft, p.usableAreaAdjustRight)
              THEN Driver(m1, DrawOp("drawPixel", p.activeDisplay, displayX, displayY,
                                     pixelColor))
              ELSE m1
        rowDone == p.currentCol + 1 >= p.bitmapWidth
        row == IF rowDone THEN p.currentRow + 1 ELSE p.currentRow
        m3 == [m2 EXCEPT !.p.currentCol = IF rowDone THEN 0 ELSE p.currentCol + 1,
                         !.p.currentRow = row]
    IN  IF rowDone /\ row % PROGRESS_REPORT_INTERVAL = 0 /\ row < p.bitmapHeight
        THEN Emit(m3, "INFO", "Progress: ", row)
        ELSE m3

\* Variant of receivePixel that clips against the unadjusted usable area.
receivePixelUnadjusted(m) ==
    LET highByte == m.rx[1].v
        lowByte == m.rx[2].v
        pixelColor == ToUint16(highByte * 256 + lowByte)
        p == m.p
        displayX == p.currentCol + p.offsetX
        displayY == p.currentRow + p.offsetY
        m1 == [m EXCEPT !.rx = SubSeq(@, 3, Len(@)),
                        !.last.used = @ \o SubSeq(m.rx, 1, 2)]
        m2 == IF isWithinFrameBounds(Cfg(m), displayX, displayY, 0, 0, 0, 0)
              THEN Driver(m1, DrawOp("drawPixel", p.activeDisplay, displayX, displayY,
                                     pixelColor))
              ELSE m1
        rowDone == p.currentCol + 1 >= p.bitmapWidth
        row == IF rowDone THEN p.currentRow + 1 ELSE p.currentRow
        m3 == [m2 EXCEPT !.p.currentCol = IF rowDone THEN 0 ELSE p.currentCol + 1,
                         !.p.currentRow = row]
    IN  IF rowDone /\ row % PROGRESS_REPORT_INTERVAL = 0 /\ row < p.bitmapHeight
        THEN Emit(m3, "INFO", "Progress: ", row)
        ELSE m3

\* One pass of the pixel loop: two bytes make one pixel, high byte first.
receivePixel(m) ==
    LET highByte == m.rx[1].v
        lowByte == m.rx[2].v
        pixelColor == ToUint16(highByte * 256 + lowByte)
        p == m.p
        displayX == p.currentCol + p.offsetX
        displayY == p.currentRow + p.offsetY
        m1 == [m EXCEPT !.rx = SubSeq(@, 3, Len(@)),
                        !.last.used = @ \o SubSeq(m.rx, 1, 2)]
        m2 == IF isWithinFrameBounds(Cfg(m), displayX, displayY,
                                     p.usableAreaAdjustTop, p.usableAreaAdjustBottom,
                                     p.usableAreaAdjustLeft, p.usableAreaAdjustRight)
              THEN Driver(m1, DrawOp("drawPixel", p.activeDisplay, displayX, displayY,
                                     pixelColor))
              ELSE m1
        rowDone == p.currentCol + 1 >= p.bitmapWidth
        row == IF rowDone THEN p.currentRow + 1 ELSE p.currentRow
        m3 == [m2 EXCEPT !.p.currentCol = IF rowDone THEN 0 ELSE p.currentCol + 1,
                         !.p.currentRow = row]
    IN  IF rowDone /\ row % PROGRESS_REPORT_INTERVAL = 0 /\ row < p.bitmapHeight
        THEN Emit(m3, "INFO", "Progress: ", row)
        ELSE m3

\* Variant of pixelLoop that takes one row more than the bitmap has.
RECURSIVE pixelLoopLate(_)
pixelLoopLate(m) ==
    IF ~(Len(m.rx) >= 2 /\ m.p.currentState = "ReceivingData") \/ m.halted THEN m
    ELSE IF m.p.currentRow > m.p.bitmapHeight
    THEN [m EXCEPT !.p.currentState = "AwaitEnd"]
    ELSE pixelLoopLate(receivePixel(m))

\* Variant of pixelLoop that leaves the data state one row early.
RECURSIVE pixelLoopEarly(_)
pixelLoopEarly(m) ==
    IF ~(Len(m.rx) >= 2 /\ m.p.currentState = "ReceivingData") \/ m.halted THEN m
    ELSE IF m.p.currentRow + 1 >= m.p.bitmapHeight
    THEN [m EXCEPT !.p.currentState = "AwaitEnd"]
    ELSE pixelLoopEarly(receivePixel(m))

RECURSIVE pixelLoop(_)
pixelLoop(m) ==
    IF ~(Len(m.rx) >= 2 /\ m.p.currentState = "ReceivingData") \/ m.halted THEN m
    ELSE IF m.p.currentRow >= m.p.bitmapHeight
    THEN [m EXCEPT !.p.currentState = "AwaitEnd"]
    ELSE pixelLoop(receivePixel(m))

handleDataReception(m) ==
    IF m.p.activeDisplay = 0 THEN sendError(m, "ERROR: No active display")
    ELSE pixelLoop(m)

\* Variant of handleEnd that hands a CMD: line to the menu, as handleStart does.
handleEndWithMenu(m) ==
    LET r == readStringUntil(m.rx)
        m0 == Read(m, r, "state")
    IN  IF IsCmd(r.line) THEN handleMenuCommand(Read(m, r, "menu"), r.line)
        ELSE IF r.line.head # "BMPEnd" THEN Read(m, r, "dropped")
        ELSE LET m1 == IF m0.p.imageFrameEnabled /\ m0.p.activeDisplay # 0
                       THEN drawImageFrame(m0, m0.p.imageFrameColor,
                                           m0.p.imageFrameThickness, <<0, 0, 0, 0>>)
                       ELSE m0
             IN  Emit([m1 EXCEPT !.p.currentState = "Complete"], "INFO", "COMPLETE", 0)

\* Any line other than BMPEnd is dropped without an answer.
handleEnd(m) ==
    LET r == readStringUntil(m.rx)
        m0 == Read(m, r, "state")
    IN  IF r.line.head # "BMPEnd" THEN Read(m, r, "dropped")
        ELSE LET m1 == IF m0.p.imageFrameEnabled /\ m0.p.activeDisplay # 0
                       THEN drawImageFrame(m0, m0.p.imageFrameColor,
                                           m0.p.imageFrameThickness, <<0, 0, 0, 0>>)
                       ELSE m0
             IN  Emit([m1 EXCEPT !.p.currentState = "Complete"], "INFO", "COMPLETE", 0)

\* A Complete that hands over to AwaitSize, skipping the start marker.
handleCompleteSkipsStart(m) ==
    Emit([m EXCEPT !.p.currentState = "AwaitSize",
                   !.p.bitmapWidth = 0, !.p.bitmapHeight = 0,
                   !.p.currentRow = 0, !.p.currentCol = 0,
                   !.p.offsetX = 0, !.p.offsetY = 0],
         "INFO", "Ready for next bitmap", 0)

handleComplete(m) ==
    Emit([m EXCEPT !.p.currentState = "AwaitStart",
                   !.p.bitmapWidth = 0, !.p.bitmapHeight = 0,
                   !.p.currentRow = 0, !.p.currentCol = 0,
                   !.p.offsetX = 0, !.p.offsetY = 0],
         "INFO", "Ready for next bitmap", 0)

\* A checkTimeout() that watches Complete as well.
TimedStatesWithComplete == {"AwaitSize", "ReceivingData", "AwaitEnd", "Complete"}

\* The states checkTimeout() watches.
TimedStates == {"AwaitSize", "ReceivingData", "AwaitEnd"}

checkTimeout(m) ==
    IF m.p.currentState \in TimedStates /\ m.idle > TIMEOUT_MS
    THEN LET m1 == sendError(m, "ERROR: Timeout waiting for data")
             m2 == Emit(m1, "INFO", "Timeout - resetting protocol", 0)
         IN  [reset(m2) EXCEPT !.idle = 0]
    ELSE m

(***************************************************************************)
(* loop(): process(), then checkTimeout(), then the delay.                 *)
(***************************************************************************)
NoRead(handler) ==
    [handler |-> handler, line |-> NoLine, route |-> "none", used |-> <<>>, skipped |-> 0]

\* The outcomes of a call through an absent handle; with every handle present
\* there is nothing to choose.
UBOutcomes ==
    IF \A i \in DisplayIds : displays[i].tft THEN {"continue"} ELSE {"continue", "fault"}

\* The machine at the start of a call; process() has stored lastActivity = millis()
\* by the time it dispatches, so a handler starts with idle = 0.
Machine(handler, since, ub) ==
    [p |-> proto, d |-> displays, rx |-> rx, idle |-> since, halted |-> halted,
     out |-> <<>>, ops |-> <<>>, last |-> NoRead(handler), ub |-> ub]

Commit(m, next) ==
    /\ proto' = m.p
    /\ displays' = m.d
    /\ rx' = m.rx
    /\ idle' = m.idle
    /\ halted' = m.halted
    /\ out' = m.out
    /\ ops' = m.ops
    /\ last' = m.last
    /\ pc' = next
    /\ UNCHANGED peer
    /\ UNCHANGED snapVars

Polling == pc = "process" /\ ~halted

\* Variant of ProcessIdle that records the poll as activity.
ProcessIdleRefreshes ==
    /\ Polling
    /\ rx = <<>>
    /\ out' = <<>>
    /\ ops' = <<>>
    /\ last' = NoRead("process")
    /\ pc' = "checkTimeout"
    /\ idle' = 0
    /\ UNCHANGED <<proto, displays, rx, halted, peer>>
    /\ UNCHANGED snapVars

\* process() with nothing available returns at once.
ProcessIdle ==
    /\ Polling
    /\ rx = <<>>
    /\ out' = <<>>
    /\ ops' = <<>>
    /\ last' = NoRead("process")
    /\ pc' = "checkTimeout"
    /\ UNCHANGED <<proto, displays, rx, idle, halted, peer>>
    /\ UNCHANGED snapVars

Dispatch(state) == Polling /\ rx # <<>> /\ proto.currentState = state

ProcessDisplaySelect ==
    /\ Dispatch("SelectDisplay")
    /\ \E ub \in UBOutcomes :
          Commit(handleDisplaySelect(Machine("handleDisplaySelect", 0, ub)), "checkTimeout")

ProcessStart ==
    /\ Dispatch("AwaitStart")
    /\ \E ub \in UBOutcomes :
          Commit(handleStart(Machine("handleStart", 0, ub)), "checkTimeout")

ProcessSize ==
    /\ Dispatch("AwaitSize")
    /\ \E ub \in UBOutcomes :
          Commit(handleSize(Machine("handleSize", 0, ub)), "checkTimeout")

ProcessData ==
    /\ Dispatch("ReceivingData")
    /\ \E ub \in UBOutcomes :
          Commit(handleDataReception(Machine("handleDataReception", 0, ub)), "checkTimeout")

ProcessEnd ==
    /\ Dispatch("AwaitEnd")
    /\ \E ub \in UBOutcomes :
          Commit(handleEnd(Machine("handleEnd", 0, ub)), "checkTimeout")

ProcessComplete ==
    /\ Dispatch("Complete")
    /\ \E ub \in UBOutcomes :
          Commit(handleComplete(Machine("handleComplete", 0, ub)), "checkTimeout")

CheckTimeout ==
    /\ pc = "checkTimeout"
    /\ ~halted
    /\ \E ub \in UBOutcomes :
          Commit(checkTimeout(Machine("checkTimeout", idle, ub)), "delay")

\* The delay at the end of loop(); one step of the model stands for TickMs of it.
Delay ==
    /\ pc = "delay"
    /\ ~halted
    /\ idle' = Min(idle + TickMs, MaxIdle)
    /\ pc' = "process"
    /\ UNCHANGED <<proto, displays, rx, halted, peer, out, ops, last>>
    /\ UNCHANGED snapVars

Engine ==
    \/ ProcessIdle
    \/ ProcessDisplaySelect
    \/ ProcessStart
    \/ ProcessSize
    \/ ProcessData
    \/ ProcessEnd
    \/ ProcessComplete
    \/ CheckTimeout
    \/ Delay

(***************************************************************************)
(* The serial peer.  What it sends between two polls is in the buffer when *)
(* the next poll starts, so its sends are taken just before process().     *)
(***************************************************************************)
PeerSendLine(line, room) ==
    /\ peer = "active"
    /\ pc = "process"
    /\ Len(rx) + 2 <= room
    /\ rx' = rx \o <<line, NL>>
    /\ UNCHANGED <<proto, displays, idle, pc, peer, halted, out, ops, last>>
    /\ UNCHANGED snapVars

PeerSendByte(b, room) ==
    /\ peer = "active"
    /\ pc = "process"
    /\ Len(rx) + 1 <= room
    /\ rx' = Append(rx, Byte(b))
    /\ UNCHANGED <<proto, displays, idle, pc, peer, halted, out, ops, last>>
    /\ UNCHANGED snapVars

PeerStop ==
    /\ peer = "active"
    /\ peer' = "stopped"
    /\ UNCHANGED <<proto, displays, rx, idle, pc, halted, out, ops, last>>
    /\ UNCHANGED snapVars

(***************************************************************************)
(* What the peer sends.                                                    *)
(***************************************************************************)
PixelBytes == {1, NLByte}

Plain(head) == Text(head, "", <<>>)
Select(name) == Text("DISPLAY:", name, <<>>)
Size(fields) == Text("SIZE:", "", fields)
Cmd(head, fields) == Text(head, "", fields)

\* left,right,top,bottom,centerX,centerY of an UPDATE_CONFIG.
NewConfig == <<<<"2">>, <<"2", "9">>, <<"2">>, <<"2", "2">>, <<"1", "5">>, <<"1", "2">>>>

SizeLines ==
    {Size(<<<<"1">>, <<"1">>>>), Size(<<<<"2">>, <<"2">>>>),
     Size(<<<<"3", "0">>, <<"1">>>>), Size(<<<<"1">>, <<"2", "1">>>>),
     Size(<<<<"3", "1">>, <<"1">>>>), Size(<<<<"1">>, <<"3", "1">>>>),
     Size(<<<<"0">>, <<"1">>>>), Size(<<<<"1">>, <<"-", "1">>>>),
     Size(<<<<"1", "0", "0", "1">>, <<"1">>>>), Size(<<<<"5">>>>)}

ProtocolLines ==
    {Select("Left"), Select("Right"), Select("left"),
     Plain("BMPStart"), Plain("BMPEnd"), Plain("RESET"), Plain("CMD:RESET"),
     Plain("CMD:LIST"), Cmd("CMD:UPDATE_CONFIG:", NewConfig), Plain("junk")} \cup SizeLines

\* Arguments of the menu commands: a value the command accepts and values it refuses.
ArgOk == <<<<"3">>>>
ArgBig == <<<<"1", "0", "0">>>>
ArgNeg == <<<<"-", "9">>>>
ArgNone == <<<<"x">>>>

MenuLines ==
    {Plain("CMD:RESET"), Plain("CMD:LIST"), Plain("CMD:INFO"), Plain("CMD:TEST"),
     Plain("CMD:TEST_ALL"), Plain("CMD:FRAME_ON"), Plain("CMD:FRAME_OFF"),
     Plain("CMD:CALIBRATE"), Plain("CMD:HELP"), Plain("CMD:?"),
     Cmd("CMD:FRAME_COLOR:", ArgOk),
     Cmd("CMD:FRAME_THICKNESS:", ArgOk), Cmd("CMD:FRAME_THICKNESS:", ArgBig),
     Cmd("CMD:FRAME_THICKNESS:", ArgNone),
     Cmd("CMD:ADJUST_TOP:", ArgOk), Cmd("CMD:ADJUST_TOP:", ArgBig),
     Cmd("CMD:ADJUST_TOP:", ArgNeg),
     Cmd("CMD:ADJUST_BOTTOM:", ArgOk), Cmd("CMD:ADJUST_BOTTOM:", ArgBig),
     Cmd("CMD:ADJUST_BOTTOM:", ArgNeg),
     Cmd("CMD:ADJUST_LEFT:", ArgOk), Cmd("CMD:ADJUST_LEFT:", ArgBig),
     Cmd("CMD:ADJUST_LEFT:", ArgNeg),
     Cmd("CMD:ADJUST_RIGHT:", ArgOk), Cmd("CMD:ADJUST_RIGHT:", ArgBig),
     Cmd("CMD:ADJUST_RIGHT:", ArgNeg),
     Cmd("CMD:UPDATE_CONFIG:", NewConfig),
     Cmd("CMD:UPDATE_CONFIG:", SubSeq(NewConfig, 1, 5)),
     Cmd("CMD:UPDATE_CONFIG:", Append(NewConfig, <<"7">>)),
     Cmd("CMD:ORIENTATION:", ArgOk), Cmd("CMD:ORIENTATION:", ArgBig),
     Cmd("CMD:ORIENTATION:", ArgNeg)}

\* The shortest transfer, which the menu commands are issued around.
TransferLines ==
    {Select("Left"), Plain("BMPStart"), Size(<<<<"1">>, <<"1">>>>), Plain("BMPEnd")}

(***************************************************************************)
(* The snapshot store of display_snapshot.cpp: one malloc'ed block holding *)
(* a SnapshotHeader and width*height pixels.  A block of the heap is a     *)
(* record of its size in bytes and of what has been written into it.       *)
(* Sizes are computed in the 32-bit size_t of the target.                  *)
(***************************************************************************)
\* A size_t value is kept as two 16-bit halves <<high, low>>; the arithmetic
\* wraps at 2^32 as the target's does.
Half == 65536

\* (size_t)a * (size_t)b for 16-bit a and b.
Times(a, b) ==
    LET upper == (a \div 256) * b
        lower == (a % 256) * b
        t == (upper % 256) * 256 + lower
    IN  <<(upper \div 256 + t \div Half) % Half, t % Half>>

\* u * k and u + k for a small k.
Scaled(u, k) == <<(u[1] * k + (u[2] * k) \div Half) % Half, (u[2] * k) % Half>>
Plus(u, k) == <<(u[1] + (u[2] + k) \div Half) % Half, (u[2] + k) % Half>>

\* u > n for a 16-bit n.
Above(u, n) == u[1] > 0 \/ u[2] > n

HeaderBytes == 8            \* sizeof(SnapshotHeader): four 16-bit fields
SnapshotCeiling == 61440    \* 60UL * 1024UL

Addresses == 1..MaxBlocks

Block(size, w, h, oX, oY, pixels) ==
    [size |-> size, width |-> w, height |-> h, offsetX |-> oX, offsetY |-> oY,
     pixels |-> pixels]

\* The record of a call: the function, its arguments, where it stands ("allocated"
\* between malloc and the writes of captureFromBuffer, "done" once it has returned,
\* "fault" or "corrupt" once a write beyond a block has happened), the value it
\* returned, the line of display_snapshot.cpp it returned from and the addresses
\* it passed to free().
Called(op, at, ret, line, buf, w, h, oX, oY, d, freed) ==
    [op |-> op, at |-> at, ret |-> ret, line |-> line, buf |-> buf, width |-> w,
     height |-> h, offsetX |-> oX, offsetY |-> oY, d |-> d, freed |-> freed]

NoCall == Called("none", "done", "none", 0, 0, 0, 0, 0, 0, 0, <<>>)

SnapshotStart ==
    /\ g_snapshot = 0
    /\ g_snapshot_size = 0
    /\ heap = <<>>
    /\ src = <<>>
    /\ call = NoCall

hasSnapshot == g_snapshot # 0

\* The header lies at the start of the block: the pointer returned is the block's.
getSnapshotHeader == IF g_snapshot = 0 THEN 0 ELSE g_snapshot

Between == call.at = "done"

EngineIdle == UNCHANGED <<proto, displays, rx, idle, pc, peer, halted, out, last>>

\* Variant of CaptureBegin that frees the previous block before it allocates.
CaptureBeginFreesFirst(nullSrc, width, height, offsetX, offsetY) ==
    LET pixels == Times(width, height)
        bytes_needed == Plus(Scaled(pixels, 2), HeaderBytes)
        refused(line) ==
            Called("capture", "done", "false", line, 0, width, height, offsetX, offsetY, 0, <<>>)
        emptied == [a \in DOMAIN heap \ {g_snapshot} |-> heap[a]]
    IN  /\ Between
        /\ ops' = <<>>
        /\ EngineIdle
        /\ src' = src
        /\ IF nullSrc \/ width = 0 \/ height = 0
           THEN call' = refused(21) /\ UNCHANGED <<g_snapshot, g_snapshot_size, heap>>
           ELSE IF Above(bytes_needed, SnapshotCeiling)
           THEN call' = refused(27) /\ UNCHANGED <<g_snapshot, g_snapshot_size, heap>>
           ELSE /\ g_snapshot' = 0
                /\ g_snapshot_size' = 0
                /\ \/ call' = refused(31) /\ heap' = emptied
                   \/ \E buf \in Addresses \ DOMAIN emptied :
                         /\ heap' = emptied @@ (buf :> Block(bytes_needed[2], 0, 0, 0, 0, <<>>))
                         /\ call' = Called("capture", "allocated", "none", 0, buf, width,
                                           height, offsetX, offsetY, 0, <<>>)

\* captureFromBuffer up to and including malloc.  nullSrc is the caller passing
\* a null pointer; malloc may fail whenever it is called.
CaptureBegin(nullSrc, width, height, offsetX, offsetY) ==
    LET pixels == Times(width, height)
        bytes_needed == Plus(Scaled(pixels, 2), HeaderBytes)
        refused(line) ==
            Called("capture", "done", "false", line, 0, width, height, offsetX, offsetY, 0, <<>>)
    IN  /\ Between
        /\ ops' = <<>>
        /\ EngineIdle
        /\ UNCHANGED <<g_snapshot, g_snapshot_size, src>>
        /\ IF nullSrc \/ width = 0 \/ height = 0
           THEN call' = refused(21) /\ heap' = heap
           ELSE IF Above(bytes_needed, SnapshotCeiling)
           THEN call' = refused(27) /\ heap' = heap
           ELSE \/ call' = refused(31) /\ heap' = heap
                \/ \E buf \in Addresses \ DOMAIN heap :
                      /\ heap' = heap @@ (buf :> Block(bytes_needed[2], 0, 0, 0, 0, <<>>))
                      /\ call' = Called("capture", "allocated", "none", 0, buf, width, height,
                                        offsetX, offsetY, 0, <<>>)

\* captureFromBuffer after malloc: the header, the copy, the free of the previous
\* block and the two assignments.  Writing more bytes than the block holds is
\* undefined: the target faults or goes on with its memory overwritten.
CaptureFinish ==
    LET buf == call.buf
        pixels == Times(call.width, call.height)
        copied == Scaled(pixels, 2)
    IN  /\ call.at = "allocated"
        /\ ops' = <<>>
        /\ EngineIdle
        /\ src' = src
        /\ IF copied[1] > 0 \/ HeaderBytes + copied[2] > heap[buf].size
           THEN /\ \E outcome \in {"fault", "corrupt"} : call' = [call EXCEPT !.at = outcome]
                /\ UNCHANGED <<g_snapshot, g_snapshot_size, heap>>
           ELSE LET written == [heap EXCEPT ![buf] =
                                   Block(@.size, call.width, call.height, call.offsetX,
                                         call.offsetY, SubSeq(src, 1, copied[2] \div 2))]
                    freed == IF g_snapshot # 0 THEN <<g_snapshot>> ELSE <<>>
                IN  /\ heap' = [a \in DOMAIN written \ {g_snapshot} |-> written[a]]
                    /\ g_snapshot' = buf
                    /\ g_snapshot_size' = heap[buf].size
                    /\ call' = [call EXCEPT !.at = "done", !.ret = "true", !.line = 51,
                                              !.freed = freed]

\* Variant of RestoreRow that tests a position against the far edges only.
RECURSIVE RestoreRowFarEdges(_, _, _, _, _)
RestoreRowFarEdges(hdr, tftWidth, tftHeight, r, c) ==
    IF c >= hdr.width THEN <<>>
    ELSE LET dx == hdr.offsetX + c
             dy == hdr.offsetY + r
             rest == RestoreRowFarEdges(hdr, tftWidth, tftHeight, r, c + 1)
         IN  IF dx < tftWidth /\ dy < tftHeight
             THEN <<[op |-> "drawPixel", x |-> dx, y |-> dy,
                     c |-> hdr.pixels[r * hdr.width + c + 1]]>> \o rest
             ELSE rest

\* The columns of row r that restoreToDisplay draws, then the rows from r on.
RECURSIVE RestoreRow(_, _, _, _, _)
RestoreRow(hdr, tftWidth, tftHeight, r, c) ==
    IF c >= hdr.width THEN <<>>
    ELSE LET dx == hdr.offsetX + c
             dy == hdr.offsetY + r
             rest == RestoreRow(hdr, tftWidth, tftHeight, r, c + 1)
         IN  IF dx >= 0 /\ dx < tftWidth /\ dy >= 0 /\ dy < tftHeight
             THEN <<[op |-> "drawPixel", x |-> dx, y |-> dy,
                     c |-> hdr.pixels[r * hdr.width + c + 1]]>> \o rest
             ELSE rest

RECURSIVE RestoreRows(_, _, _, _)
RestoreRows(hdr, tftWidth, tftHeight, r) ==
    IF r >= hdr.height THEN <<>>
    ELSE RestoreRow(hdr, tftWidth, tftHeight, r, 0)
             \o RestoreRows(hdr, tftWidth, tftHeight, r + 1)

\* Variant of restoreToDisplay that gives the snapshot up once it is drawn.
restoreToDisplayOnce(d) ==
    /\ Between
    /\ EngineIdle
    /\ src' = src
    /\ IF g_snapshot = 0
       THEN /\ ops' = <<>>
            /\ UNCHANGED <<g_snapshot, g_snapshot_size, heap>>
            /\ call' = Called("restore", "done", "false", 63, 0, 0, 0, 0, 0, d, <<>>)
       ELSE /\ ops' = RestoreRows(heap[g_snapshot], DisplayConfigs[d].width,
                                  DisplayConfigs[d].height, 0)
            /\ heap' = [a \in DOMAIN heap \ {g_snapshot} |-> heap[a]]
            /\ g_snapshot' = 0
            /\ g_snapshot_size' = 0
            /\ call' = Called("restore", "done", "true", 80, 0, 0, 0, 0, 0, d, <<g_snapshot>>)

\* restoreToDisplay on the driver of display d.
restoreToDisplay(d) ==
    /\ Between
    /\ EngineIdle
    /\ UNCHANGED <<g_snapshot, g_snapshot_size, heap, src>>
    /\ IF g_snapshot = 0
       THEN /\ ops' = <<>>
            /\ call' = Called("restore", "done", "false", 63, 0, 0, 0, 0, 0, d, <<>>)
       ELSE /\ ops' = RestoreRows(heap[g_snapshot], DisplayConfigs[d].width,
                                  DisplayConfigs[d].height, 0)
            /\ call' = Called("restore", "done", "true", 80, 0, 0, 0, 0, 0, d, <<>>)

\* Variant of discardSnapshot that hands its pointer to free() without testing it.
discardSnapshotUnguarded ==
    /\ Between
    /\ EngineIdle
    /\ ops' = <<>>
    /\ src' = src
    /\ heap' = [a \in DOMAIN heap \ {g_snapshot} |-> heap[a]]
    /\ g_snapshot' = 0
    /\ g_snapshot_size' = 0
    /\ call' = Called("discard", "done", "void", 89, 0, 0, 0, 0, 0, 0, <<g_snapshot>>)

\* Variant of discardSnapshot that forgets the block without freeing it.
discardSnapshotLeaks ==
    /\ Between
    /\ EngineIdle
    /\ ops' = <<>>
    /\ src' = src
    /\ heap' = heap
    /\ g_snapshot' = 0
    /\ g_snapshot_size' = 0
    /\ call' = Called("discard", "done", "void", 89, 0, 0, 0, 0, 0, 0, <<>>)

discardSnapshot ==
    /\ Between
    /\ EngineIdle
    /\ ops' = <<>>
    /\ src' = src
    /\ IF g_snapshot # 0
       THEN /\ heap' = [a \in DOMAIN heap \ {g_snapshot} |-> heap[a]]
            /\ g_snapshot' = 0
            /\ g_snapshot_size' = 0
            /\ call' = Called("discard", "done", "void", 89, 0, 0, 0, 0, 0, 0, <<g_snapshot>>)
       ELSE /\ UNCHANGED <<g_snapshot, g_snapshot_size, heap>>
            /\ call' = Called("discard", "done", "void", 89, 0, 0, 0, 0, 0, 0, <<>>)

\* The caller's buffers, and the caller overwriting its buffer between two calls.
SrcBuffers ==
    {[i \in 1..MaxPixels |-> i], [i \in 1..MaxPixels |-> 65535], [i \in 1..MaxPixels |-> 7 - i]}

CallerWrites ==
    /\ Between
    /\ src' \in SrcBuffers \ {src}
    /\ UNCHANGED <<g_snapshot, g_snapshot_size, heap, call, ops>>
    /\ EngineIdle

\* The arguments the caller passes: dimensions at and around the limits of the
\* size computation, and offsets that put the rectangle across the display's edges.
CaptureSizes ==
    {<<0, 0>>, <<0, 1>>, <<1, 0>>, <<1, 1>>, <<2, 1>>, <<1, 2>>, <<2, 2>>,
     <<30717, 1>>, <<1, 30717>>, <<256, 256>>, <<65535, 65535>>,
     <<65534, 32769>>, <<32769, 65534>>}

OffsetPairs == {<<0, 0>>, <<0 - 1, 0 - 1>>, <<31, 23>>, <<23, 31>>}

\* The caller's side of the contract: src holds width*height pixels whenever
\* that many pixels fit under the ceiling.
Holds(width, height) ==
    ~Above(Times(width, height), (SnapshotCeiling - HeaderBytes) \div 2) =>
        Times(width, height)[2] <= Len(src)

InitSnapshot ==
    /\ proto = InitProto
    /\ displays = [i \in DisplayIds |->
                      [name |-> DisplayConfigs[i].name,
                       width |-> DisplayConfigs[i].width,
                       height |-> DisplayConfigs[i].height,
                       usableX |-> DisplayConfigs[i].usableX,
                       usableY |-> DisplayConfigs[i].usableY,
                       usableWidth |-> DisplayConfigs[i].usableWidth,
                       usableHeight |-> DisplayConfigs[i].usableHeight,
                       centerX |-> DisplayConfigs[i].centerX,
                       centerY |-> DisplayConfigs[i].centerY,
                       tft |-> TRUE]]
    /\ rx = <<>>
    /\ idle = 0
    /\ pc = "process"
    /\ peer = "stopped"
    /\ halted = FALSE
    /\ out = <<>>
    /\ ops = <<>>
    /\ last = NoRead("none")
    /\ g_snapshot = 0
    /\ g_snapshot_size = 0
    /\ heap = <<>>
    /\ src \in SrcBuffers
    /\ call = NoCall

NextSnapshot ==
    \/ \E nullSrc \in BOOLEAN, size \in CaptureSizes, offset \in OffsetPairs :
          /\ Holds(size[1], size[2])
          /\ CaptureBegin(nullSrc, size[1], size[2], offset[1], offset[2])
    \/ CaptureFinish
    \/ \E d \in DisplayIds : restoreToDisplay(d)
    \/ discardSnapshot
    \/ CallerWrites

SpecSnapshot == InitSnapshot /\ [][NextSnapshot]_vars

(***************************************************************************)
(* Specifications.                                                         *)
(***************************************************************************)
Init ==
    /\ proto = InitProto
    /\ displays = [i \in DisplayIds |->
                      [name |-> DisplayConfigs[i].name,
                       width |-> DisplayConfigs[i].width,
                       height |-> DisplayConfigs[i].height,
                       usableX |-> DisplayConfigs[i].usableX,
                       usableY |-> DisplayConfigs[i].usableY,
                       usableWidth |-> DisplayConfigs[i].usableWidth,
                       usableHeight |-> DisplayConfigs[i].usableHeight,
                       centerX |-> DisplayConfigs[i].centerX,
                       centerY |-> DisplayConfigs[i].centerY,
                       tft |-> TRUE]]
    /\ rx = <<>>
    /\ idle \in {0, MaxIdle}
    /\ pc = "process"
    /\ peer = "active"
    /\ halted = FALSE
    /\ out = <<>>
    /\ ops = <<>>
    /\ last = NoRead("none")
    /\ SnapshotStart

\* A peer that sends while the buffer has room for what it sends.
Peer(lines, room) ==
    \/ \E line \in lines : PeerSendLine(line, room)
    \/ \E b \in PixelBytes : PeerSendByte(b, room)

Next == Engine \/ Peer(ProtocolLines, MaxRx)

Spec == Init /\ [][Next]_vars

\* The menu commands, issued before, between and after transfers.
\* Its peer sends a command when at most MaxPending units are still unread.
NextMenu == Engine \/ Peer(MenuLines \cup TransferLines, MaxPending + 2)

SpecMenu == Init /\ [][NextMenu]_vars

\* A peer that may stop sending for good; loop() itself never stops.
LiveLines == TransferLines \cup {Plain("RESET"), Plain("junk")}

NextLive == Engine \/ Peer(LiveLines, MaxRx) \/ PeerStop

\* loop() runs for ever: weak fairness of Engine.  Engine is enabled in every state
\* that has not faulted (each position of loop() has a step to take), so weak
\* fairness of it is that Engine steps keep occurring, which is how it is stated
\* for the steps that handle input; the three others are stated with WF.
LoopRuns ==
    /\ WF_vars(ProcessIdle)
    /\ WF_vars(CheckTimeout)
    /\ WF_vars(Delay)
    /\ []<><<Engine>>_vars

SpecLive == Init /\ [][NextLive]_vars /\ LoopRuns

\* The calibration commands around display selections, resets and transfers.
\* WideConfig asks for the widest rectangle six 16-bit values can name.
WideConfig ==
    <<<<"0">>, <<"6", "5", "5", "3", "5">>, <<"0">>, <<"6", "5", "5", "3", "5">>,
      <<"1", "6">>, <<"1", "2">>>>

CalLines ==
    {Select("Left"), Select("Right"), Plain("RESET"), Plain("CMD:RESET"), Plain("junk"),
     Cmd("CMD:ADJUST_TOP:", <<<<"1", "2">>>>), Cmd("CMD:ADJUST_RIGHT:", <<<<"-", "4">>>>),
     Cmd("CMD:UPDATE_CONFIG:", NewConfig), Cmd("CMD:UPDATE_CONFIG:", WideConfig)}
    \cup TransferLines

NextCal == Engine \/ Peer(CalLines, MaxPending + 2)

SpecCal == Init /\ [][NextCal]_vars

\* The ADJUST_* commands as functions of their argument: the engine is between
\* transfers (no display selected, or one selected and waiting for BMPStart) with
\* adjustments it has accepted before, and one ADJUST_* line is in the buffer.
\* Decimal is the text a client writes for an integer.
RECURSIVE DecimalDigits(_)
DecimalDigits(n) ==
    IF n < 10 THEN <<Digits[n + 1]>>
    ELSE Append(DecimalDigits(n \div 10), Digits[(n % 10) + 1])

Decimal(n) == IF n < 0 THEN <<"-">> \o DecimalDigits(0 - n) ELSE DecimalDigits(n)

AdjustHeads ==
    {"CMD:ADJUST_TOP:", "CMD:ADJUST_BOTTOM:", "CMD:ADJUST_LEFT:", "CMD:ADJUST_RIGHT:"}

AdjustArgs == (0 - AdjustSpan)..AdjustSpan

AdjustLines == {Cmd(h, <<Decimal(a)>>) : h \in AdjustHeads, a \in AdjustArgs}

\* Adjustments every display of the registry accepts on every edge.
PriorAdjusts == {<<0, 0, 0, 0>>, <<3, 3, 3, 3>>}

Registry ==
    [i \in DisplayIds |->
        [name |-> DisplayConfigs[i].name,
         width |-> DisplayConfigs[i].width,
         height |-> DisplayConfigs[i].height,
         usableX |-> DisplayConfigs[i].usableX,
         usableY |-> DisplayConfigs[i].usableY,
         usableWidth |-> DisplayConfigs[i].usableWidth,
         usableHeight |-> DisplayConfigs[i].usableHeight,
         centerX |-> DisplayConfigs[i].centerX,
         centerY |-> DisplayConfigs[i].centerY,
         tft |-> TRUE]]

InitAdjust ==
    /\ \E d \in DisplayIds \cup {0}, prior \in PriorAdjusts :
          proto = [InitProto EXCEPT
                      !.currentState = IF d = 0 THEN "SelectDisplay" ELSE "AwaitStart",
                      !.activeDisplay = d,
                      !.usableAreaAdjustTop = prior[1],
                      !.usableAreaAdjustBottom = prior[2],
                      !.usableAreaAdjustLeft = prior[3],
                      !.usableAreaAdjustRight = prior[4]]
    /\ displays = Registry
    /\ \E line \in AdjustLines : rx = <<line, NL>>
    /\ idle = 0
    /\ pc = "process"
    /\ peer = "stopped"
    /\ halted = FALSE
    /\ out = <<>>
    /\ ops = <<>>
    /\ last = NoRead("none")
    /\ SnapshotStart

\* The engine stays in SelectDisplay or AwaitStart here: these are the steps of
\* loop() that can occur.
NextAdjust ==
    \/ ProcessIdle
    \/ ProcessDisplaySelect
    \/ ProcessStart
    \/ CheckTimeout
    \/ Delay

SpecAdjust == InitAdjust /\ [][NextAdjust]_vars

\* One whole transfer, sent by a client that sends nothing else.  Here peer is
\* the client's script (the units of the transfer) and the number of units sent.
\* The pixel bytes follow one of three patterns: byte i is i, every byte is the
\* newline byte, byte i is 256 - i.
StreamByte(pattern, i) ==
    CASE pattern = "count" -> i
      [] pattern = "newlines" -> NLByte
      [] pattern = "high" -> 256 - i

Patterns == {"count", "newlines", "high"}

TransferSizes == {<<1, 1>>, <<2, 1>>, <<1, 2>>, <<2, 2>>}

ScriptHead(name, w, h) ==
    <<Select(name), NL, Plain("BMPStart"), NL, Size(<<Decimal(w), Decimal(h)>>), NL>>

Script(name, w, h, pattern) ==
    ScriptHead(name, w, h)
        \o [i \in 1..(2 * w * h) |-> Byte(StreamByte(pattern, i))]
        \o <<Plain("BMPEnd"), NL>>

InitTransfer ==
    /\ proto = InitProto
    /\ displays = Registry
    /\ rx = <<>>
    /\ idle \in {0, MaxIdle}
    /\ pc = "process"
    /\ \E i \in DisplayIds, size \in TransferSizes, pattern \in Patterns :
          peer = [script |-> Script(DisplayConfigs[i].name, size[1], size[2], pattern),
                  sent |-> 0]
    /\ halted = FALSE
    /\ out = <<>>
    /\ ops = <<>>
    /\ last = NoRead("none")
    /\ SnapshotStart

Unsent == peer.sent < Len(peer.script)

\* The next n units arrive; a line arrives together with its newline.  The client
\* sends when at most one unit, the first byte of a pixel, is still unread.
PeerDeliver(n) ==
    /\ pc = "process"
    /\ Len(rx) <= 1
    /\ peer.sent + n <= Len(peer.script)
    /\ peer.script[peer.sent + n].t # "text"
    /\ rx' = rx \o SubSeq(peer.script, peer.sent + 1, peer.sent + n)
    /\ peer' = [peer EXCEPT !.sent = @ + n]
    /\ UNCHANGED <<proto, displays, idle, pc, halted, out, ops, last>>
    /\ UNCHANGED snapVars

\* The client does not pause for longer than the timeout while it has units to send.
Prompt == ~(Unsent /\ pc = "process" /\ rx = <<>> /\ idle > TIMEOUT_MS)

\* loop() with this client.  Nothing arrives after BMPEnd, so process() never
\* finds input in Complete and handleComplete() has no step.
TransferEngine ==
    \/ Prompt /\ ProcessIdle
    \/ ProcessDisplaySelect
    \/ ProcessStart
    \/ ProcessSize
    \/ ProcessData
    \/ ProcessEnd
    \/ CheckTimeout
    \/ Delay

NextTransfer == TransferEngine \/ \E n \in 1..MaxBurst : PeerDeliver(n)

\* loop() runs for ever and the client goes on to the end of its script.
SpecTransfer ==
    InitTransfer /\ [][NextTransfer]_vars /\ LoopRuns
        /\ SF_vars(\E n \in 1..MaxBurst : PeerDeliver(n))

\* A transfer that follows a calibration: the client selects a display, moves its
\* left edge, switches the image frame on or off and sends a bitmap one row high
\* that is as wide as the display's usable area.
ClipCases ==
    {[name |-> "Left", adjust |-> <<"-", "5">>, w |-> <<"3", "0">>],
     [name |-> "Left", adjust |-> <<"3">>, w |-> <<"3", "0">>],
     [name |-> "Right", adjust |-> <<"-", "2">>, w |-> <<"2", "4">>],
     [name |-> "Right", adjust |-> <<"0">>, w |-> <<"2", "4">>]}

ClipScript(case, frame) ==
    <<Select(case.name), NL, Cmd("CMD:ADJUST_LEFT:", <<case.adjust>>), NL, Plain(frame), NL,
      Plain("BMPStart"), NL, Size(<<case.w, <<"1">>>>), NL>>
        \o [i \in 1..(2 * toInt(case.w)) |-> Byte(StreamByte("count", i))]
        \o <<Plain("BMPEnd"), NL>>

InitClip ==
    /\ proto = InitProto
    /\ displays = Registry
    /\ rx = <<>>
    /\ idle = 0
    /\ pc = "process"
    /\ \E case \in ClipCases, frame \in {"CMD:FRAME_ON", "CMD:FRAME_OFF"} :
          peer = [script |-> ClipScript(case, frame), sent |-> 0]
    /\ halted = FALSE
    /\ out = <<>>
    /\ ops = <<>>
    /\ last = NoRead("none")
    /\ SnapshotStart

SpecClip == InitClip /\ [][NextTransfer]_vars

\* Start-up after initializeAll(), which goes on when a display fails to
\* initialize: any of the registered displays may be without its driver handle.
WideSize == Size(<<<<"3", "1">>, <<"1">>>>)

PartialLines ==
    {Select("Left"), Select("Right"), Plain("BMPStart"), Plain("BMPEnd"), Plain("junk"),
     Size(<<<<"1">>, <<"1">>>>), WideSize, Cmd("CMD:ORIENTATION:", ArgOk)}

InitPartial ==
    /\ proto = InitProto
    /\ \E t \in [DisplayIds -> BOOLEAN] :
          displays = [i \in DisplayIds |-> [Registry[i] EXCEPT !.tft = t[i]]]
    /\ rx = <<>>
    /\ idle \in {0, MaxIdle}
    /\ pc = "process"
    /\ peer = "active"
    /\ halted = FALSE
    /\ out = <<>>
    /\ ops = <<>>
    /\ last = NoRead("none")
    /\ SnapshotStart

NextPartial == Engine \/ Peer(PartialLines, MaxPending + 2)

SpecPartial == InitPartial /\ [][NextPartial]_vars

\* The frame settings: FRAME:THICKNESS: and CMD:FRAME_THICKNESS: with arguments
\* inside and outside 1..10, before, during and after a transfer, and the
\* firmware calling setImageFrameEnabled between two polls.
ArgZero == <<<<"0">>>>

FrameLines ==
    TransferLines \cup
    {Plain("RESET"), Plain("FRAME:ON"),
     Cmd("FRAME:THICKNESS:", ArgOk), Cmd("FRAME:THICKNESS:", ArgBig),
     Cmd("FRAME:THICKNESS:", ArgZero), Cmd("FRAME:THICKNESS:", ArgNeg),
     Cmd("CMD:FRAME_THICKNESS:", ArgOk), Cmd("CMD:FRAME_THICKNESS:", ArgBig),
     Cmd("CMD:FRAME_THICKNESS:", ArgZero), Cmd("CMD:FRAME_THICKNESS:", ArgNeg)}

setImageFrameEnabled(m, enabled, color, thickness) ==
    [m EXCEPT !.p.imageFrameEnabled = enabled,
              !.p.imageFrameColor = ToUint16(color),
              !.p.imageFrameThickness = ToUint8(thickness)]

SetImageFrameEnabled ==
    /\ Polling
    /\ \E enabled \in BOOLEAN, thickness \in {0, 1, 10, 11} :
          Commit(setImageFrameEnabled(Machine("setImageFrameEnabled", idle, "continue"),
                                      enabled, ST77XX_WHITE, thickness),
                 "process")

NextFrame == Engine \/ Peer(FrameLines, MaxPending + 2) \/ SetImageFrameEnabled

SpecFrame == Init /\ [][NextFrame]_vars

(***************************************************************************)
(* Properties.                                                             *)
(***************************************************************************)
HasMsg(o, msg) == \E i \in 1..Len(o) : o[i].msg = msg
HasError(o) == \E i \in 1..Len(o) : o[i].k = "ERROR"

States == {"SelectDisplay", "AwaitStart", "AwaitSize", "ReceivingData", "AwaitEnd", "Complete"}

\* A step of process() that found input, and a step of checkTimeout().
ProcessStep == pc = "process" /\ pc' = "checkTimeout" /\ rx # <<>>
TimeoutStep == pc = "checkTimeout" /\ pc' = "delay"

\* C1: the protocol state changes only along SelectDisplay -> AwaitStart ->
\* AwaitSize -> ReceivingData -> AwaitEnd -> Complete -> AwaitStart, or from any
\* state to SelectDisplay.
C1_Transitions ==
    [][proto'.currentState # proto.currentState =>
          <<proto.currentState, proto'.currentState>> \in
              {<<"SelectDisplay", "AwaitStart">>, <<"AwaitStart", "AwaitSize">>,
               <<"AwaitSize", "ReceivingData">>, <<"ReceivingData", "AwaitEnd">>,
               <<"AwaitEnd", "Complete">>, <<"Complete", "AwaitStart">>}
              \cup {<<s, "SelectDisplay">> : s \in States}]_vars

\* The loop has closed: Complete has handed over to AwaitStart.
C1_Witness == last.handler = "handleComplete" /\ proto.currentState = "AwaitStart"

NothingChanges ==
    /\ UNCHANGED <<proto, displays, rx, idle, halted>>
    /\ out' = <<>>
    /\ ops' = <<>>

TimedOut ==
    /\ proto'.currentState = "SelectDisplay"
    /\ HasMsg(out', "ERROR: Timeout waiting for data")

\* C2 as claimed: checkTimeout() resets the engine and reports a timeout exactly
\* when more than 15000 ms have passed since the last activity and the state is
\* AwaitSize, ReceivingData, AwaitEnd or Complete; otherwise it changes nothing.
C2_Original ==
    [][TimeoutStep =>
          IF idle > 15000 /\ proto.currentState \in
                 {"AwaitSize", "ReceivingData", "AwaitEnd", "Complete"}
          THEN TimedOut ELSE NothingChanges]_vars

\* C2 as amended: the states are AwaitSize, ReceivingData and AwaitEnd; in
\* SelectDisplay, AwaitStart and Complete checkTimeout() changes nothing.
C2_Timeout ==
    [][TimeoutStep =>
          IF idle > 15000 /\ proto.currentState \in {"AwaitSize", "ReceivingData", "AwaitEnd"}
          THEN TimedOut ELSE NothingChanges]_vars

\* A timeout has just reset the engine.
C2_Witness ==
    /\ last.handler = "checkTimeout"
    /\ HasMsg(out, "ERROR: Timeout waiting for data")
    /\ proto.currentState = "SelectDisplay"

\* C3: once the peer has stopped sending, an engine in AwaitSize, ReceivingData or
\* AwaitEnd eventually returns to SelectDisplay.
C3_EventuallyReset ==
    [](peer = "stopped" /\ proto.currentState \in {"AwaitSize", "ReceivingData", "AwaitEnd"}
          => <>(proto.currentState = "SelectDisplay"))

ResetHeads == {"RESET", "CMD:RESET"}

\* C4: a poll that reads a RESET or CMD:RESET line ends in SelectDisplay with no
\* display selected, whatever the state was.
C4_ResetHonoured ==
    (\/ last.line.head \in ResetHeads
     \/ /\ last.handler = "handleDataReception"
        /\ \E i \in 1..Len(last.used) : last.used[i].head \in ResetHeads)
    => proto.currentState = "SelectDisplay" /\ proto.activeDisplay = 0

\* C5: in the states that read a line, a CMD: line goes to the menu-command handler.
C5_CmdRouted ==
    (/\ last.handler \in {"handleDisplaySelect", "handleStart", "handleSize", "handleEnd"}
     /\ IsCmd(last.line))
    => last.route = "menu"

\* A step of process() that handed the line it read to handleMenuCommand.
MenuStep == ProcessStep /\ last'.route = "menu"

\* C6: a menu command other than RESET leaves the protocol state and the selected
\* display as they were, whether it succeeds or fails.
C6_MenuKeepsState ==
    [][MenuStep /\ last'.line.head # "CMD:RESET" =>
          /\ proto'.currentState = proto.currentState
          /\ proto'.activeDisplay = proto.activeDisplay]_vars

\* An UPDATE_CONFIG has been accepted between the selection and the start marker.
C6_Witness ==
    /\ last.route = "menu"
    /\ last.line.head = "CMD:UPDATE_CONFIG:"
    /\ HasMsg(out, "OK:Base configuration updated")
    /\ proto.currentState = "AwaitStart"

Session(p) ==
    <<p.imageFrameEnabled, p.imageFrameColor, p.imageFrameThickness,
      p.usableAreaAdjustTop, p.usableAreaAdjustBottom,
      p.usableAreaAdjustLeft, p.usableAreaAdjustRight>>

Calibration(cfg) ==
    <<cfg.usableX, cfg.usableWidth, cfg.usableY, cfg.usableHeight, cfg.centerX, cfg.centerY>>

\* The six fields an UPDATE_CONFIG with these arguments asks for.
Requested(args) ==
    LET v == [i \in 1..6 |-> toInt(args[i])]
    IN  <<ToUint16(v[1]), ToUint16(v[2] - v[1] + 1), ToUint16(v[3]),
          ToUint16(v[4] - v[3] + 1), ToUint16(v[5]), ToUint16(v[6])>>

NeedsDisplay ==
    {"CMD:INFO", "CMD:TEST", "CMD:FRAME_ON", "CMD:FRAME_OFF", "CMD:FRAME_COLOR:",
     "CMD:FRAME_THICKNESS:", "CMD:ADJUST_TOP:", "CMD:ADJUST_BOTTOM:", "CMD:ADJUST_LEFT:",
     "CMD:ADJUST_RIGHT:", "CMD:CALIBRATE", "CMD:UPDATE_CONFIG:", "CMD:ORIENTATION:"}

\* The edge an ADJUST_* command asks for lies outside that edge's band; the
\* adjustment is the signed byte the command reads.
OutsideBand(head, adjust, cfg) ==
    CASE head = "CMD:ADJUST_TOP:" ->
            cfg.usableY - adjust < -10 \/ cfg.usableY - adjust > cfg.centerY - 10
      [] head = "CMD:ADJUST_LEFT:" ->
            cfg.usableX - adjust < -10 \/ cfg.usableX - adjust > cfg.centerX - 10
      [] head = "CMD:ADJUST_BOTTOM:" ->
            \/ cfg.usableY + cfg.usableHeight - 1 + adjust > cfg.height + 9
            \/ cfg.usableY + cfg.usableHeight - 1 + adjust < cfg.centerY + 10
      [] head = "CMD:ADJUST_RIGHT:" ->
            \/ cfg.usableX + cfg.usableWidth - 1 + adjust > cfg.width + 9
            \/ cfg.usableX + cfg.usableWidth - 1 + adjust < cfg.centerX + 10
      [] OTHER -> FALSE

\* The failing conditions of the menu commands.
Failing(p, d, line) ==
    IF p.activeDisplay = 0 THEN line.head \in NeedsDisplay \/ line.head = "CMD:?"
    ELSE \/ line.head = "CMD:?"
         \/ line.head = "CMD:FRAME_THICKNESS:" /\ toInt(line.args[1]) \notin 1..10
         \/ line.head = "CMD:ORIENTATION:" /\ toInt(line.args[1]) \notin 0..3
         \/ line.head = "CMD:UPDATE_CONFIG:" /\ Len(line.args) # 6
         \/ /\ line.head \in {"CMD:ADJUST_TOP:", "CMD:ADJUST_BOTTOM:",
                              "CMD:ADJUST_LEFT:", "CMD:ADJUST_RIGHT:"}
            /\ OutsideBand(line.head, ToInt8(toInt(line.args[1])), d[p.activeDisplay])

\* C7: a menu command that fails answers with an ERROR line and leaves the frame
\* settings, the four adjustments and every display's six calibration fields as
\* they were; an UPDATE_CONFIG sets all six fields of the selected display to the
\* requested values or changes no field.
C7_FailingPaths ==
    [][MenuStep =>
          /\ Failing(proto, displays, last'.line) => HasError(out')
          /\ HasError(out') =>
                /\ Session(proto') = Session(proto)
                /\ \A i \in DisplayIds : Calibration(displays'[i]) = Calibration(displays[i])
          /\ last'.line.head = "CMD:UPDATE_CONFIG:" =>
                \/ \A i \in DisplayIds : Calibration(displays'[i]) = Calibration(displays[i])
                \/ /\ proto.activeDisplay # 0
                   /\ Len(last'.line.args) = 6
                   /\ Calibration(displays'[proto.activeDisplay]) = Requested(last'.line.args)]_vars

\* An ADJUST_TOP has been refused while a display was selected.
C7_Witness ==
    /\ last.route = "menu"
    /\ last.line.head = "CMD:ADJUST_TOP:"
    /\ HasError(out)
    /\ proto.activeDisplay # 0

\* A step of process() in which handleSize read a SIZE: line.
SizeStep ==
    /\ ProcessStep
    /\ proto.currentState = "AwaitSize"
    /\ last'.handler = "handleSize"
    /\ last'.line.head = "SIZE:"

\* The SIZE: line has two fields and both fit the usable area and the maximum.
ValidSize(line, cfg) ==
    /\ Len(line.args) >= 2
    /\ LET w == toInt(line.args[1])
           h == toInt(line.args[2])
       IN  /\ 0 < w /\ w <= Min(1000, cfg.usableWidth)
           /\ 0 < h /\ h <= Min(1000, cfg.usableHeight)

\* C8: in AwaitSize with a display selected, a SIZE:w,h with 0 < w <= min(1000,
\* usableWidth) and 0 < h <= min(1000, usableHeight) passes both checks, is answered
\* with READY, and puts the engine in ReceivingData with the cursor at row 0, column 0.
C8_ValidSizeAccepted ==
    [][SizeStep /\ proto.activeDisplay # 0
          /\ ValidSize(last'.line, displays[proto.activeDisplay]) =>
          /\ HasMsg(out', "Dimensions validated: ")
          /\ HasMsg(out', "Centering at offset: ")
          /\ HasMsg(out', "READY")
          /\ ~HasError(out')
          /\ proto'.currentState = "ReceivingData"
          /\ proto'.currentRow = 0
          /\ proto'.currentCol = 0]_vars

\* A bitmap as wide as the usable area has been accepted.
C8_Witness ==
    /\ last.handler = "handleSize"
    /\ HasMsg(out, "READY")
    /\ proto.currentState = "ReceivingData"
    /\ proto.activeDisplay # 0
    /\ proto.bitmapWidth = displays[proto.activeDisplay].usableWidth

Geometry(p) ==
    <<p.bitmapWidth, p.bitmapHeight, p.offsetX, p.offsetY, p.currentRow, p.currentCol>>

Placed(cfg, w, h, oX, oY) ==
    /\ oX = cfg.usableX + cfg.usableWidth \div 2 - w \div 2
    /\ oY = cfg.usableY + cfg.usableHeight \div 2 - h \div 2
    /\ isWithinBounds(cfg, oX, oY)
    /\ isWithinBounds(cfg, oX + w - 1, oY + h - 1)

\* The centred placement of the bitmap a SIZE: line announces leaves the bounds.
Misplaced(line, cfg) ==
    /\ Len(line.args) >= 2
    /\ LET w == toInt(line.args[1])
           h == toInt(line.args[2])
           oX == cfg.usableX + cfg.usableWidth \div 2 - w \div 2
           oY == cfg.usableY + cfg.usableHeight \div 2 - h \div 2
       IN  ~(isWithinBounds(cfg, oX, oY) /\ isWithinBounds(cfg, oX + w - 1, oY + h - 1))

\* C10: in ReceivingData and AwaitEnd the offsets centre the bitmap in the usable
\* rectangle and both corners of its bounding box are within bounds; a SIZE: whose
\* placement is not within bounds is refused and no pixel byte is consumed.
C10_Centred ==
    /\ [](proto.currentState \in {"ReceivingData", "AwaitEnd"} =>
             /\ proto.activeDisplay # 0
             /\ Placed(displays[proto.activeDisplay], proto.bitmapWidth,
                       proto.bitmapHeight, proto.offsetX, proto.offsetY))
    /\ [][SizeStep /\ proto.activeDisplay # 0
             /\ Misplaced(last'.line, displays[proto.activeDisplay]) =>
             /\ HasError(out')
             /\ proto'.currentState # "ReceivingData"
             /\ rx' = readStringUntil(rx).rest
             /\ \A i \in 1..Len(ops') : ops'[i].op # "drawPixel"]_vars

\* An odd-sized bitmap on the even-sized usable area of the first display is
\* complete and centred.
C10_Witness ==
    /\ proto.currentState = "AwaitEnd"
    /\ proto.activeDisplay = 1
    /\ proto.bitmapWidth = 1
    /\ proto.offsetX = 16

\* The six integers of an UPDATE_CONFIG line.
ConfigValues(line) == [i \in 1..6 |-> toInt(line.args[i])]

\* C11: with a display selected, an UPDATE_CONFIG whose six values are non-negative
\* 16-bit values with left < right and top < bottom leaves usableX = left,
\* usableWidth = right - left + 1, usableY = top, usableHeight = bottom - top + 1, the
\* center as given and the four adjustments zero.
C11_UpdateConfig ==
    [][MenuStep /\ last'.line.head = "CMD:UPDATE_CONFIG:" /\ proto.activeDisplay # 0
          /\ Len(last'.line.args) = 6 =>
          LET v == ConfigValues(last'.line)
              cfg == displays'[proto.activeDisplay]
          IN  (/\ \A i \in 1..6 : v[i] \in 0..65535
               /\ v[1] < v[2]
               /\ v[3] < v[4]) =>
                 /\ cfg.usableX = v[1]
                 /\ cfg.usableWidth = v[2] - v[1] + 1
                 /\ cfg.usableY = v[3]
                 /\ cfg.usableHeight = v[4] - v[3] + 1
                 /\ cfg.centerX = v[5]
                 /\ cfg.centerY = v[6]
                 /\ Adjusts(proto') = <<0, 0, 0, 0>>]_vars

\* A step in which an ADJUST_* command was handled with a display selected.
AdjustStep ==
    /\ MenuStep
    /\ last'.line.head \in AdjustHeads
    /\ proto.activeDisplay # 0

\* The four stored adjustments with the one of this edge replaced.
WithEdge(adj, head, a) ==
    CASE head = "CMD:ADJUST_TOP:" -> <<a, adj[2], adj[3], adj[4]>>
      [] head = "CMD:ADJUST_BOTTOM:" -> <<adj[1], a, adj[3], adj[4]>>
      [] head = "CMD:ADJUST_LEFT:" -> <<adj[1], adj[2], a, adj[4]>>
      [] head = "CMD:ADJUST_RIGHT:" -> <<adj[1], adj[2], adj[3], a>>

\* C12: for an adjustment a in -128..127 the command succeeds exactly when the edge
\* lies in its band; on success only that edge's stored adjustment becomes a and the
\* calibration frame is redrawn with the four current adjustments; on failure no
\* stored adjustment changes and no frame is drawn.
C12_AdjustBand ==
    [][AdjustStep /\ toInt(last'.line.args[1]) \in -128..127 =>
          LET a == toInt(last'.line.args[1])
              h == last'.line.head
              d == proto.activeDisplay
          IN  IF ~OutsideBand(h, a, displays[d])
              THEN /\ ~HasError(out')
                   /\ \E i \in 1..Len(out') : out'[i].k = "OK" /\ out'[i].val = a
                   /\ Adjusts(proto') = WithEdge(Adjusts(proto), h, a)
                   /\ ops' = <<FrameOp("drawCalibrationFrame", d, Adjusts(proto'),
                                       proto.imageFrameColor, proto.imageFrameThickness)>>
              ELSE /\ HasError(out')
                   /\ Adjusts(proto') = Adjusts(proto)
                   /\ ops' = <<>>]_vars

\* The bottom edge of the second display has been moved to its outermost position
\* while the other three adjustments were already in place.
C12_Witness ==
    /\ last.line.head = "CMD:ADJUST_BOTTOM:"
    /\ proto.activeDisplay = 2
    /\ Adjusts(proto) = <<3, 11, 3, 3>>
    /\ Len(ops) = 1

\* C13: for every integer argument a, byte-sized or not, the command is accepted
\* only if the edge computed from a itself lies in the band, a stored adjustment that
\* changes becomes a, and an argument outside -128..127 whose edge is outside the
\* band is refused with the stored adjustments unchanged.
C13_WideArguments ==
    [][AdjustStep =>
          LET a == toInt(last'.line.args[1])
              h == last'.line.head
              cfg == displays[proto.activeDisplay]
          IN  /\ ~HasError(out') => ~OutsideBand(h, a, cfg)
              /\ Adjusts(proto') # Adjusts(proto) =>
                    Adjusts(proto') = WithEdge(Adjusts(proto), h, a)
              /\ a \notin -128..127 /\ OutsideBand(h, a, cfg) =>
                    HasError(out') /\ Adjusts(proto') = Adjusts(proto)]_vars

OuterMsgs ==
    {"ERROR:Top edge would be beyond limit (maximum adjustment: ",
     "ERROR:Left edge would be beyond limit (maximum adjustment: ",
     "ERROR:Bottom edge would be beyond limit (maximum: ",
     "ERROR:Right edge would be beyond limit (maximum: "}

RejectedOuter(o) == \E i \in 1..Len(o) : o[i].msg \in OuterMsgs

NamedLimit(o) == o[CHOOSE i \in 1..Len(o) : o[i].msg \in OuterMsgs].val

\* The limit the claim gives for each edge.
ClaimedLimit(head, cfg) ==
    CASE head = "CMD:ADJUST_TOP:" -> cfg.usableY + 10
      [] head = "CMD:ADJUST_LEFT:" -> cfg.usableX + 10
      [] head = "CMD:ADJUST_BOTTOM:" -> (cfg.height + 9) - (cfg.usableY + cfg.usableHeight - 1)
      [] head = "CMD:ADJUST_RIGHT:" -> (cfg.width + 9) - (cfg.usableX + cfg.usableWidth - 1)

\* What the same command prints, in the same state, for the argument a.
AnswerTo(head, a) ==
    handleMenuCommand(Machine("handleStart", 0, "continue"), Cmd(head, <<Decimal(a)>>)).out

\* C16: when an ADJUST_* is refused for exceeding the outer bound, the limit its
\* ERROR line names is the claimed one, the command with the named limit as its
\* argument passes the outer-bound check and with the named limit plus one fails it.
C16_NamedLimit ==
    [][AdjustStep /\ RejectedOuter(out') =>
          LET h == last'.line.head
              limit == NamedLimit(out')
          IN  /\ limit = ClaimedLimit(h, displays[proto.activeDisplay])
              /\ ~RejectedOuter(AnswerTo(h, limit))
              /\ RejectedOuter(AnswerTo(h, limit + 1))]_vars

\* ADJUST_TOP:120 has been refused on the first display, naming usableY + 10.
C16_Witness ==
    /\ last.line = Cmd("CMD:ADJUST_TOP:", <<Decimal(120)>>)
    /\ proto.activeDisplay = 1
    /\ RejectedOuter(out)
    /\ NamedLimit(out) = displays[1].usableY + 10

\* Each of the four adjustments places its edge inside the band of this display.
InBand(adj, cfg) ==
    /\ ~OutsideBand("CMD:ADJUST_TOP:", adj[1], cfg)
    /\ ~OutsideBand("CMD:ADJUST_BOTTOM:", adj[2], cfg)
    /\ ~OutsideBand("CMD:ADJUST_LEFT:", adj[3], cfg)
    /\ ~OutsideBand("CMD:ADJUST_RIGHT:", adj[4], cfg)

\* C14: whenever a display is selected, every stored adjustment places its edge
\* inside the band computed from that display's current configuration.
C14_AdjustmentsInBand ==
    proto.activeDisplay # 0 => InBand(Adjusts(proto), displays[proto.activeDisplay])

\* What the engine prints when it resets: the answers to RESET and CMD:RESET, and
\* the errors reported through sendError, the timeout among them.
ResetMsgs ==
    {"Protocol reset", "OK:Protocol reset", "ERROR: Timeout waiting for data",
     "ERROR: Display not found: ", "ERROR: Expected BMPStart, got: ",
     "ERROR: No active display selected", "ERROR: No active display",
     "ERROR: Invalid size format", "ERROR: Invalid dimensions",
     "ERROR: Dimensions too large", "ERROR: Width exceeds usable width",
     "ERROR: Height exceeds usable height",
     "ERROR: Calculated bitmap position exceeds bounds"}

\* C15: after a protocol reset all four calibration adjustments are zero.
C15_ResetClearsAdjustments ==
    (\E i \in 1..Len(out) : out[i].msg \in ResetMsgs) => Adjusts(proto) = <<0, 0, 0, 0>>

\* What the client of SpecTransfer sends: the display, the size and the pixel bytes.
ScriptId == CHOOSE i \in DisplayIds : DisplayConfigs[i].name = peer.script[1].name
ScriptW == toInt(peer.script[5].args[1])
ScriptH == toInt(peer.script[5].args[2])
PixelByte(i) == peer.script[Len(ScriptHead("", 1, 1)) + i].v

Moves(from, to) == proto.currentState = from /\ proto'.currentState = to

\* C17: a client that sends DISPLAY:N, BMPStart, SIZE:w,h, exactly 2*w*h pixel
\* bytes and BMPEnd for a registered display and a valid size gets DISPLAY_READY:N,
\* Start marker received, READY and COMPLETE, each on the step that enters the
\* next state of the transfer, with no ERROR on any step, and COMPLETE only when
\* all w*h pixels have been consumed.
C17_Transfer ==
    /\ [][/\ ~HasError(out')
          /\ proto'.currentState # proto.currentState =>
                \/ Moves("SelectDisplay", "AwaitStart")
                \/ Moves("AwaitStart", "AwaitSize")
                \/ Moves("AwaitSize", "ReceivingData")
                \/ Moves("ReceivingData", "AwaitEnd")
                \/ Moves("AwaitEnd", "Complete")
          /\ \A i \in 1..Len(out') :
                /\ out'[i].msg = "DISPLAY_READY:" =>
                      Moves("SelectDisplay", "AwaitStart") /\ out'[i].val = ScriptId
                /\ out'[i].msg = "Start marker received" => Moves("AwaitStart", "AwaitSize")
                /\ out'[i].msg = "READY" => Moves("AwaitSize", "ReceivingData")
                /\ out'[i].msg = "COMPLETE" =>
                      /\ Moves("AwaitEnd", "Complete")
                      /\ proto.bitmapWidth = ScriptW /\ proto.bitmapHeight = ScriptH
                      /\ proto.currentRow = ScriptH /\ proto.currentCol = 0
                      /\ ~Unsent /\ rx' = <<>>]_vars
    /\ <>HasMsg(out, "DISPLAY_READY:")
    /\ <>HasMsg(out, "Start marker received")
    /\ <>HasMsg(out, "READY")
    /\ <>HasMsg(out, "COMPLETE")

\* A 2x2 transfer whose pixel bytes are all the newline byte has completed.
C17_Witness ==
    /\ HasMsg(out, "COMPLETE")
    /\ ScriptW = 2 /\ ScriptH = 2 /\ PixelByte(1) = NLByte
    /\ proto.currentState = "Complete"

\* A poll in the data state.
DataStep == ProcessStep /\ proto.currentState = "ReceivingData" /\ proto.activeDisplay # 0

PixelsDone(p) == p.currentRow * p.bitmapWidth + p.currentCol

\* C20: a poll in the data state that starts at pixel k0 and ends at pixel k1
\* consumes 2*(k1 - k0) bytes and draws, for k = k0..k1-1 in this order, the
\* colour 256*byte[2k] + byte[2k+1] of the transfer's pixel bytes at
\* (offsetX + k mod w, offsetY + k div w), however the bytes were split.
C20_PixelDecoding ==
    [][DataStep =>
          LET k0 == PixelsDone(proto)
              k1 == PixelsDone(proto')
              w == proto.bitmapWidth
          IN  /\ k1 >= k0 /\ k1 <= ScriptW * ScriptH
              /\ Len(rx) - Len(rx') = 2 * (k1 - k0)
              /\ 2 * k1 + Len(rx') = peer.sent - Len(ScriptHead("", 1, 1))
                    \/ Len(peer.script) - peer.sent < 2
              /\ ops' = [j \in 1..(k1 - k0) |->
                            LET k == k0 + j - 1
                            IN  DrawOp("drawPixel", proto.activeDisplay,
                                       proto.offsetX + (k % w), proto.offsetY + (k \div w),
                                       256 * PixelByte(2 * k + 1) + PixelByte(2 * k + 2))]]_vars

\* A poll of a 2x2 transfer has drawn the second row's pixels, 0x0506 and 0x0708.
C20_Witness ==
    /\ last.handler = "handleDataReception"
    /\ Len(ops) = 2
    /\ ops[1].c = 1286 /\ ops[2].c = 1800
    /\ ops[1].y = ops[2].y /\ ops[2].x = ops[1].x + 1
    /\ proto.currentRow = 2

\* A non-empty line that AwaitStart does not expect.
Unexpected(line) == line # EmptyLine /\ ~IsCmd(line) /\ line.head # "BMPStart"

\* A poll in AwaitStart whose next line is unexpected, and a poll in Complete
\* with a BMPEnd line waiting.
UnexpectedStart ==
    /\ ProcessStep
    /\ proto.currentState = "AwaitStart" /\ proto.activeDisplay # 0
    /\ Unexpected(readStringUntil(rx).line)
SecondEnd ==
    /\ ProcessStep
    /\ proto.currentState = "Complete"
    /\ readStringUntil(rx).line.head = "BMPEnd"

C19_UnacceptedLineErrors ==
    (last.route = "dropped" /\ last.line \notin {EmptyLine, NoLine}) =>
        Len(SelectSeq(out, LAMBDA e : e.k = "ERROR")) = 1

\* The drawPixel call for the j-th pixel a poll in the data state takes from the buffer.
PixelCall(j) ==
    LET k == PixelsDone(proto) + j - 1
    IN  DrawOp("drawPixel", proto.activeDisplay,
               proto.offsetX + (k % proto.bitmapWidth), proto.offsetY + (k \div proto.bitmapWidth),
               256 * rx[2 * j - 1].v + rx[2 * j].v)

Passes(o) ==
    isWithinFrameBounds(displays[proto.activeDisplay], o.x, o.y,
                        proto.usableAreaAdjustTop, proto.usableAreaAdjustBottom,
                        proto.usableAreaAdjustLeft, proto.usableAreaAdjustRight)

\* C21: a poll in the data state that takes n pixels from the buffer advances
\* the cursor by n and issues drawPixel for exactly those of them, in order,
\* whose position passes isWithinFrameBounds with the four current adjustments,
\* whether the image frame is enabled or not.
C21_ClipTest ==
    [][DataStep =>
          LET n == (Len(rx) - Len(rx')) \div 2
          IN  /\ Len(rx) - Len(rx') = 2 * n
              /\ PixelsDone(proto') = PixelsDone(proto) + n
              /\ ops' = SelectSeq([j \in 1..n |-> PixelCall(j)], Passes)]_vars

\* With the left edge of display 2 moved in by two and the frame off, a poll
\* took the pixels at x = 1 and x = 2 and drew only the second.
C21_Witness ==
    /\ last.handler = "handleDataReception"
    /\ proto.activeDisplay = 2
    /\ proto.usableAreaAdjustLeft = 0 - 2
    /\ ~proto.imageFrameEnabled
    /\ Len(last.used) = 4
    /\ proto.currentCol = 3
    /\ Len(ops) = 1 /\ ops[1].x = 2

\* A step of process() or of checkTimeout() that raises an error while a transfer
\* is active.
TransferError ==
    /\ ProcessStep \/ TimeoutStep
    /\ proto.currentState \in {"AwaitSize", "ReceivingData", "AwaitEnd"}
    /\ HasError(out')

Painted(o, d) ==
    \E i \in 1..Len(o), j \in 1..Len(out') :
        out'[j].k = "ERROR" /\ o[i] = ErrorScreen(d, out'[j].msg)

\* C22 as stated: every error raised while a transfer is active paints the red
\* error screen with the message on the display selected at that moment and
\* leaves the engine reset.
C22_Original ==
    [][TransferError =>
          /\ proto.activeDisplay # 0
          /\ Painted(ops', proto.activeDisplay)
          /\ proto'.currentState = "SelectDisplay" /\ proto'.activeDisplay = 0
          /\ Geometry(proto') = Geometry(InitProto)]_vars

\* C22: every error raised while a transfer is active leaves the engine in
\* SelectDisplay with no display selected and zero geometry, and paints the red
\* error screen with the message on the display selected at that moment exactly
\* when that display has its driver handle; without it nothing is drawn.
C22_ErrorScreen ==
    [][TransferError =>
          /\ proto.activeDisplay # 0
          /\ IF displays[proto.activeDisplay].tft
             THEN Painted(ops', proto.activeDisplay)
             ELSE ops' = <<>>
          /\ proto'.currentState = "SelectDisplay" /\ proto'.activeDisplay = 0
          /\ Geometry(proto') = Geometry(InitProto)]_vars

\* The timeout has painted its message on display 2, and the engine is reset.
C22_Witness ==
    /\ last.handler = "checkTimeout"
    /\ HasMsg(out, "ERROR: Timeout waiting for data")
    /\ ops = <<ErrorScreen(2, "ERROR: Timeout waiting for data")>>
    /\ proto.currentState = "SelectDisplay" /\ proto.activeDisplay = 0

\* C23: no step of the engine makes a call through the driver handle of a
\* display that has none (such a call is undefined and can fault).
C23_NoAbsentHandleUse == ~halted

\* C24: a call of process() that finds no input changes neither the protocol
\* state, the selected display, the geometry, the frame settings, the
\* adjustments (all fields of proto) nor the time since the last activity, and
\* neither prints nor draws.
C24_IdlePoll ==
    [][pc = "process" /\ rx = <<>> /\ pc' # pc =>
          /\ proto' = proto
          /\ displays' = displays
          /\ idle' = idle
          /\ rx' = <<>>
          /\ out' = <<>> /\ ops' = <<>>]_vars

\* process() has just returned without input in the middle of a transfer whose
\* data is overdue.
C24_Witness ==
    /\ pc = "checkTimeout"
    /\ last.handler = "process"
    /\ proto.currentState = "ReceivingData"
    /\ proto.activeDisplay = 1
    /\ idle = MaxIdle

\* A step that enters captureFromBuffer.
CaptureCall == call.at = "done" /\ call'.op = "capture" /\ src' = src

\* 8 + 2*width*height > 61440, without wrapping.
Oversize(width, height) ==
    Above(Times(width, height), (SnapshotCeiling - HeaderBytes) \div 2)

\* C25: captureFromBuffer returns false and leaves the snapshot unchanged when
\* width = 0, height = 0 or 8 + 2*width*height > 61440, and a block it
\* allocates holds at least 8 + 2*width*height bytes.
C25_RejectsOversize ==
    [][CaptureCall =>
          /\ (call'.width = 0 \/ call'.height = 0 \/ Oversize(call'.width, call'.height)) =>
                /\ call'.at = "done" /\ call'.ret = "false"
                /\ UNCHANGED <<g_snapshot, g_snapshot_size, heap>>
          /\ call'.at = "allocated" =>
                /\ ~Oversize(call'.width, call'.height)
                /\ heap'[call'.buf].size >= HeaderBytes + 2 * call'.width * call'.height]_vars

\* C26: when malloc fails in captureFromBuffer the call returns false and the
\* stored snapshot, if any, is untouched: the same block with the same header
\* and pixels.
C26_AllocationFailure ==
    [][CaptureCall /\ call'.at = "done" /\ call'.line = 31 =>
          /\ call'.ret = "false"
          /\ hasSnapshot' = hasSnapshot
          /\ UNCHANGED <<g_snapshot, g_snapshot_size, heap>>]_vars

\* A 2x2 capture has failed in malloc while the snapshot of the pixels 1, 2, 3, 4
\* was stored.
C26_Witness ==
    /\ call.op = "capture" /\ call.at = "done" /\ call.line = 31
    /\ call.width = 2 /\ call.height = 2
    /\ hasSnapshot
    /\ heap[g_snapshot].pixels = <<1, 2, 3, 4>>
    /\ g_snapshot_size = 16

Stored == IF hasSnapshot THEN {g_snapshot} ELSE {}

\* C27 as stated: at every point at most one snapshot block is allocated, and
\* between calls the live blocks are exactly the stored snapshot.
C27_Original ==
    /\ Cardinality(DOMAIN heap) <= 1
    /\ Between => DOMAIN heap = Stored

\* C27: between calls the live blocks are exactly the stored snapshot (one if
\* hasSnapshot(), none otherwise); inside captureFromBuffer, from malloc until
\* the previous block is freed, the new block is live beside the stored one, so
\* that two blocks are live while a snapshot is being replaced; every address
\* passed to free() was live and is not freed twice.
C27_BlocksLive ==
    /\ [](Between => DOMAIN heap = Stored)
    /\ [](~Between => call.buf \notin Stored /\ DOMAIN heap = Stored \cup {call.buf})
    /\ [][call' # call =>
             /\ Len(call'.freed) <= 1
             /\ \A i \in 1..Len(call'.freed) :
                   call'.freed[i] \in DOMAIN heap /\ call'.freed[i] \notin DOMAIN heap']_vars

\* A capture has replaced the snapshot at address 1 by the one at address 2 and
\* freed the former.
C27_Witness ==
    /\ call.op = "capture" /\ call.at = "done" /\ call.ret = "true"
    /\ call.freed = <<1>>
    /\ g_snapshot = 2
    /\ DOMAIN heap = {2}

\* A step that is a call of restoreToDisplay.
RestoreCall == Between /\ call'.op = "restore" /\ src' = src

\* C28: restoreToDisplay returns false and draws nothing when no snapshot is
\* stored; with one stored it returns true and leaves the stored block as it
\* was, and a restore that follows a restore to the same display issues the
\* same drawPixel calls.
C28_Restore ==
    [][RestoreCall =>
          /\ UNCHANGED <<g_snapshot, g_snapshot_size, heap>>
          /\ call'.freed = <<>>
          /\ IF hasSnapshot THEN call'.ret = "true"
             ELSE call'.ret = "false" /\ ops' = <<>>
          /\ (hasSnapshot /\ call.op = "restore" /\ call.d = call'.d) => ops' = ops]_vars

\* A restore to display 1 has returned true after drawing the one pixel of a
\* 2x2 snapshot at (31, 23) that lies on the display.
C28_Witness ==
    /\ call.op = "restore" /\ call.ret = "true" /\ call.d = 1
    /\ hasSnapshot
    /\ heap[g_snapshot].width = 2 /\ heap[g_snapshot].height = 2
    /\ ops = <<[op |-> "drawPixel", x |-> 31, y |-> 23, c |-> heap[g_snapshot].pixels[1]]>>

\* A step in which captureFromBuffer completes and returns true.
CaptureStored == call.at = "allocated" /\ call'.at = "done" /\ call'.ret = "true"

\* The cells <<r, c>> of a stored rectangle that lie on display d.
OnDisplay(hdr, d) ==
    {rc \in (0..(hdr.height - 1)) \X (0..(hdr.width - 1)) :
        /\ 0 <= hdr.offsetX + rc[2] /\ hdr.offsetX + rc[2] < DisplayConfigs[d].width
        /\ 0 <= hdr.offsetY + rc[1] /\ hdr.offsetY + rc[1] < DisplayConfigs[d].height}

\* C29: a successful captureFromBuffer(src, w, h, offsetX, offsetY) stores w, h,
\* the offsets and the first w*h values of src; the stored block then stays as
\* it is while it is the snapshot, whatever the caller writes to src; and
\* restoreToDisplay draws the stored value of cell (r, c) at
\* (offsetX + c, offsetY + r) exactly for the cells that lie on the display,
\* once each, and nothing else.
C29_RoundTrip ==
    /\ [][CaptureStored =>
             LET hdr == heap'[g_snapshot']
             IN  /\ g_snapshot' = call.buf
                 /\ hdr.width = call.width /\ hdr.height = call.height
                 /\ hdr.offsetX = call.offsetX /\ hdr.offsetY = call.offsetY
                 /\ hdr.pixels = [i \in 1..(call.width * call.height) |-> src[i]]]_vars
    /\ [][(hasSnapshot /\ g_snapshot' = g_snapshot) =>
             heap'[g_snapshot] = heap[g_snapshot]]_vars
    /\ [][(RestoreCall /\ hasSnapshot) =>
             LET hdr == heap[g_snapshot]
                 cells == OnDisplay(hdr, call'.d)
             IN  /\ Len(ops') = Cardinality(cells)
                 /\ {ops'[i] : i \in 1..Len(ops')} =
                        {[op |-> "drawPixel", x |-> hdr.offsetX + rc[2],
                          y |-> hdr.offsetY + rc[1],
                          c |-> hdr.pixels[rc[1] * hdr.width + rc[2] + 1]] : rc \in cells}]_vars

\* A 2x2 snapshot captured at (-1, -1) has been restored to display 1 as the
\* single pixel (0, 0) with the value of cell (1, 1), after the caller changed
\* that element of src.
C29_Witness ==
    /\ call.op = "restore" /\ call.ret = "true" /\ call.d = 1
    /\ hasSnapshot
    /\ heap[g_snapshot].width = 2 /\ heap[g_snapshot].height = 2
    /\ heap[g_snapshot].offsetX = 0 - 1 /\ heap[g_snapshot].offsetY = 0 - 1
    /\ src[4] # heap[g_snapshot].pixels[4]
    /\ ops = <<[op |-> "drawPixel", x |-> 0, y |-> 0, c |-> heap[g_snapshot].pixels[4]]>>

\* A step that is a call of discardSnapshot.
DiscardCall == Between /\ call'.op = "discard" /\ src' = src

\* C30: after discardSnapshot, hasSnapshot is false and getSnapshotHeader is
\* null; a discard with a snapshot stored frees exactly that block, and a
\* discard with none stored (a second discard, or a first one before any
\* capture) changes nothing and frees nothing.
C30_Discard ==
    [][DiscardCall =>
          /\ ~hasSnapshot' /\ getSnapshotHeader' = 0
          /\ ops' = <<>>
          /\ IF hasSnapshot
             THEN /\ call'.freed = <<g_snapshot>>
                  /\ DOMAIN heap' = DOMAIN heap \ {g_snapshot}
             ELSE /\ call'.freed = <<>>
                  /\ UNCHANGED <<g_snapshot, g_snapshot_size, heap>>]_vars

\* A discard has just returned having freed nothing, with nothing stored and
\* no block live.
C30_Witness ==
    /\ call.op = "discard" /\ call.at = "done" /\ call.freed = <<>>
    /\ ~hasSnapshot /\ g_snapshot_size = 0
    /\ DOMAIN heap = {}

\* A poll in the data state that reads the last pixel of the bitmap.
LastPixelRead ==
    /\ DataStep
    /\ PixelsDone(proto') > PixelsDone(proto)
    /\ proto'.currentRow >= proto'.bitmapHeight

\* C31: at the end of the poll in which the last of the w*h pixels is read the
\* engine is in AwaitEnd, whether or not further bytes wait in the serial buffer.
C31_AwaitEndAtLastPixel ==
    [][LastPixelRead => proto'.currentState = "AwaitEnd"]_vars

\* C32: once the engine is in Complete, polling alone brings it to AwaitStart;
\* the client has nothing more to send after BMPEnd.
C32_CompleteAdvances ==
    (proto.currentState = "Complete") ~> (proto.currentState = "AwaitStart")

\* Message a is printed before message b.
Before(o, a, b) == \E i, j \in 1..Len(o) : i < j /\ o[i].msg = a /\ o[j].msg = b

\* C33: READY is printed only by handleSize for a SIZE: line, after both checks
\* have passed and after the selected display was filled with black, with no
\* error on that step and nothing but the line taken from the buffer; the data
\* state is entered only on such a step and pixels are drawn only in the data
\* state, so no pixel byte is consumed before READY.
C33_ReadyAfterChecks ==
    [][/\ HasMsg(out', "READY") =>
             /\ SizeStep
             /\ ~HasError(out')
             /\ Before(out', "Dimensions validated: ", "READY")
             /\ Before(out', "Centering at offset: ", "READY")
             /\ Before(out', "Clearing display...", "READY")
             /\ ops' = <<DrawOp("fillScreen", proto.activeDisplay, 0, 0, 0)>>
             /\ last'.used = <<last'.line, NL>>
             /\ rx = last'.used \o rx'
       /\ (proto'.currentState = "ReceivingData" /\ proto.currentState # "ReceivingData") =>
             HasMsg(out', "READY")
       /\ \A i \in 1..Len(ops') :
             ops'[i].op = "drawPixel" => proto.currentState = "ReceivingData"]_vars

\* READY has been printed for SIZE:1,1 while the first byte of its pixel was
\* already waiting behind the line; the byte is still in the buffer.
C33_Witness ==
    /\ last.handler = "handleSize"
    /\ HasMsg(out, "READY")
    /\ proto.bitmapWidth = 1 /\ proto.bitmapHeight = 1
    /\ rx # <<>> /\ rx[1].t = "byte"
    /\ ops = <<DrawOp("fillScreen", proto.activeDisplay, 0, 0, 0)>>
    /\ proto.currentRow = 0 /\ proto.currentCol = 0

\* The units u taken from the front of the buffer are one line: no newline but
\* at the end, and without a newline only when the buffer ran out.
OneLine(u, rest) ==
    /\ u # <<>>
    /\ \A i \in 1..(Len(u) - 1) : u[i].t # "nl"
    /\ u[Len(u)].t = "nl" \/ rest = <<>>

\* The lines among the units u.
LinesIn(u) ==
    Cardinality({i \in 1..Len(u) : u[i].t = "nl"})
        + (IF u # <<>> /\ u[Len(u)].t # "nl" THEN 1 ELSE 0)

\* C34: a call of process() that finds input ends as follows.  In SelectDisplay
\* the wait loop has handled one recognised line (CMD:, RESET, FRAME:, DISPLAY:)
\* and dropped the lines before it, or it has dropped every line, no input
\* remains and the selection window has elapsed.  In ReceivingData fewer than
\* two bytes remain, or the last row is complete, or the handler has reported
\* an error.  In every other state one line was read or nothing was consumed.
C34_ProcessReturns ==
    [][ProcessStep =>
          /\ pc' = "checkTimeout"
          /\ rx = last'.used \o rx'
          /\ proto.currentState = "SelectDisplay" =>
                LET handled == LinesIn(last'.used) - last'.skipped
                IN  \/ handled = 1 /\ last'.route \in {"menu", "state"}
                    \/ /\ handled = 0
                       /\ rx' = <<>>
                       /\ idle' >= DISPLAY_SELECT_TIMEOUT
          /\ proto.currentState = "ReceivingData" =>
                \/ Len(rx') < 2
                \/ proto'.currentRow >= proto'.bitmapHeight /\ proto'.currentState = "AwaitEnd"
                \/ HasError(out')
          /\ proto.currentState \in {"AwaitStart", "AwaitSize", "AwaitEnd", "Complete"} =>
                \/ rx' = rx /\ last'.used = <<>>
                \/ OneLine(last'.used, rx')]_vars

\* The wait loop of SelectDisplay has dropped one line and then handled a
\* DISPLAY: line in the same call.
C34_Witness ==
    /\ last.handler = "handleDisplaySelect"
    /\ last.skipped = 1
    /\ last.route = "state"
    /\ last.line.head = "DISPLAY:"
    /\ LinesIn(last.used) = 2

\* C35: between the calls of loop() a display is selected exactly when the
\* engine is not in SelectDisplay, and a menu command that needs a display,
\* issued in SelectDisplay, gets the one answer ERROR:No active display selected.
C35_SelectedIffNotSelecting ==
    /\ []((proto.activeDisplay # 0) <=> (proto.currentState # "SelectDisplay"))
    /\ [][(MenuStep /\ proto.currentState = "SelectDisplay"
              /\ last'.line.head \in NeedsDisplay) =>
             /\ out' = <<Msg("ERROR", "ERROR:No active display selected", 0)>>
             /\ ops' = <<>>
             /\ proto' = proto /\ displays' = displays]_vars

\* CMD:CALIBRATE, issued in SelectDisplay, has been refused for want of a display.
C35_Witness ==
    /\ last.handler = "handleDisplaySelect"
    /\ last.route = "menu"
    /\ last.line.head = "CMD:CALIBRATE"
    /\ out = <<Msg("ERROR", "ERROR:No active display selected", 0)>>
    /\ proto.currentState = "SelectDisplay" /\ proto.activeDisplay = 0

Receiving(p) == p.currentState = "ReceivingData"

\* C36: in the data state the announced size is positive, the column is within
\* the row and the row within the bitmap or just behind it.  The cursor starts
\* at pixel 0, only a poll of the data handler moves it, and such a poll takes
\* two bytes from the buffer for every pixel the cursor advances and never
\* moves the cursor past pixel w*h: with the cursor there it takes nothing, so
\* what follows the last pixel is not read as pixel data.
C36_DataCursor ==
    /\ [](Receiving(proto) =>
             /\ proto.bitmapWidth >= 1 /\ proto.bitmapHeight >= 1
             /\ 0 <= proto.currentCol /\ proto.currentCol < proto.bitmapWidth
             /\ 0 <= proto.currentRow /\ proto.currentRow <= proto.bitmapHeight)
    /\ [][(~Receiving(proto) /\ Receiving(proto')) => PixelsDone(proto') = 0]_vars
    /\ [][Receiving(proto) =>
             IF DataStep
             THEN /\ rx = last'.used \o rx'
                  /\ Len(last'.used) = 2 * (PixelsDone(proto') - PixelsDone(proto))
                  /\ PixelsDone(proto') <= proto.bitmapWidth * proto.bitmapHeight
                  /\ proto'.bitmapWidth = proto.bitmapWidth
                  /\ proto'.bitmapHeight = proto.bitmapHeight
                  /\ proto'.currentState \in {"ReceivingData", "AwaitEnd"}
                  /\ PixelsDone(proto) = proto.bitmapWidth * proto.bitmapHeight =>
                        last'.used = <<>> /\ ops' = <<>>
             ELSE /\ Receiving(proto') => proto' = proto
                  /\ \E k \in 0..Len(rx') : rx' = rx \o SubSeq(rx', Len(rx') - k + 1, Len(rx'))]_vars

\* With the one pixel of a 1x1 bitmap consumed, a poll that found two more
\* bytes has moved to AwaitEnd and left both in the buffer.
C36_Witness ==
    /\ last.handler = "handleDataReception"
    /\ last.used = <<>>
    /\ proto.currentState = "AwaitEnd"
    /\ proto.bitmapWidth = 1 /\ proto.bitmapHeight = 1
    /\ proto.currentRow = 1 /\ proto.currentCol = 0
    /\ Len(rx) >= 2 /\ rx[1].t = "byte" /\ rx[2].t = "byte"

\* C37: the frame handleEnd draws when it accepts BMPEnd is the rectangle of
\* the session's four adjustments, the one the pixels of the transfer were
\* clipped against and the one CMD:FRAME_ON and CMD:CALIBRATE draw.
C37_EndFrameAdjusted ==
    [][last'.handler = "handleEnd" =>
          \A i \in 1..Len(ops') :
              ops'[i].op = "drawImageFrame" => ops'[i].adj = Adjusts(proto)]_vars

\* C38: the session's frame thickness is within 1..10 whatever FRAME:THICKNESS:,
\* CMD:FRAME_THICKNESS: and setImageFrameEnabled are given.
C38_ThicknessInRange == proto.imageFrameThickness \in 1..10

\* The usable rectangle is not empty, lies on the panel and holds the center.
WellFormed(cfg) ==
    /\ cfg.usableWidth >= 1 /\ cfg.usableHeight >= 1
    /\ cfg.usableX + cfg.usableWidth <= cfg.width
    /\ cfg.usableY + cfg.usableHeight <= cfg.height
    /\ cfg.usableX <= cfg.centerX /\ cfg.centerX < cfg.usableX + cfg.usableWidth
    /\ cfg.usableY <= cfg.centerY /\ cfg.centerY < cfg.usableY + cfg.usableHeight

\* C39: whatever commands were given, every display's usable rectangle is
\* well formed; an UPDATE_CONFIG that asks for another one changes nothing.
C39_UsableAreaWellFormed == \A i \in DisplayIds : WellFormed(displays[i])

\* A transfer is under way: its SIZE was accepted and it has not ended.
InTransfer(p) == p.currentState \in {"ReceivingData", "AwaitEnd"}

\* What a pixel is placed and clipped with.
Placement(p, d) ==
    <<p.activeDisplay, Calibration(d[p.activeDisplay]), p.offsetX, p.offsetY, Adjusts(p)>>

\* C40: from the acceptance of SIZE to the end of the transfer (COMPLETE, an
\* error or a timeout) no step changes the selected display, its usable
\* rectangle and center, the centering offsets or the four adjustments.
C40_GeometryFixed ==
    [][(InTransfer(proto) /\ (InTransfer(proto') \/ proto'.currentState = "Complete")) =>
          /\ proto.activeDisplay # 0
          /\ Placement(proto', displays') = Placement(proto, displays)
          /\ displays' = displays]_vars

\* handleEnd has read CMD:UPDATE_CONFIG while waiting for BMPEnd and dropped it.
C40_Witness ==
    /\ last.handler = "handleEnd"
    /\ last.line.head = "CMD:UPDATE_CONFIG:"
    /\ last.route = "dropped"
    /\ proto.currentState = "AwaitEnd"
    /\ proto.activeDisplay # 0
    /\ displays[proto.activeDisplay].usableWidth = DisplayConfigs[proto.activeDisplay].usableWidth

====
